---- MODULE Spec2Model ----
(***************************************************************************)
(* Concurrency primitives and thread pools of the threads repository.      *)
(*                                                                         *)
(* Part I  : AgingPriorityPool  (src/ThreadPools/AgingPriority.cpp 1-228)  *)
(* Part II : PriorityThreadPool (src/ThreadPools/AgingPriority.cpp 230-383)*)
(* Part III: BoundedBlockingQueue                                          *)
(*           (src/Bounded-Blocking-Queue/BoundedBlockingQueue.cpp 23-157)  *)
(* Part IV : RWLock (src/Readers-Writers/CustomRWLock.cpp 27-138)          *)
(*                                                                         *)
(* Every thread is a small program counter machine.  A step that runs      *)
(* under queue_mtx is one action (all heap mutation is serialised by that  *)
(* mutex); the places where the code reads or writes the atomic `stop`     *)
(* outside the mutex, and the gap between a worker's test of its wait      *)
(* predicate and its block in cv.wait, are separate actions.               *)
(***************************************************************************)
EXTENDS Integers, Sequences, FiniteSets, TLC

\* ------------------------------------------------------------------ bounds
\* Largest number of worker threads a pool is constructed with.
NumWorkers == 2
\* Number of threads that call enqueue concurrently.
NumSubmitters == 2
\* Number of tasks enqueued in one run.
MaxTasks == 2
\* Number of times the shutdown body is run on one pool.
MaxShutdownCalls == 2
\* Last clock value reached in the timed demonstration runs, in clock ticks.
DemoMaxTime == 12
\* Number of MEDIUM tasks of the flood that the demonstration runs enqueue.
FloodCount == 2
\* Number of tasks enqueued in the runs that load the heap of a one-worker pool.
HeapTasks == 4
\* Bounded queue: producer threads, consumer threads, largest capacity a queue is
\* constructed with, and number of values pushed in one run.
NumProducers == 2
NumConsumers == 1
MaxCapacity == 2
MaxItems == 3
\* RWLock: reader threads and writer threads; each calls lock and unlock for ever.
NumReaders == 2
NumWriters == 2
\* Even/odd printer: width in bits of the int that count and max_count are held in.
IntBits == 4
\* Shared counter: number of increments each of the two threads performs (BIG).
NumIncrements == 2

\* --------------------------------------------------------- program constants
\* Clock ticks per second: the clock is finer than the whole seconds that
\* duration_cast<seconds> truncates to.
TicksPerSecond == 2
\* sleep_for(milliseconds(1000)) of the monitor, in milliseconds.
MonitorSleepMs == 1000
\* (wait_duration / 2): seconds of waiting per boost.
BoostIntervalSec == 2
\* ... * 20: priority gained per boost.
BoostAmount == 20
\* Demonstration: priorities and payload durations (ms) of main().
BlockingPrio == 100
StarvedPrio == 20
MediumPrio == 50
BlockingMs == 4000
StarvedMs == 500
MediumMs == 1000
\* Demonstration: `AgingPriorityPool pool(1)`.
DemoWorkers == 1
\* The MEDIUM priority of the second copy of the demonstration.
MediumPrioAlt == 30
\* PriorityThreadPool demonstration priorities.
LowPrio == 1
HighPrio == 10
\* Bounded queue demonstration: `BoundedBlockingQueue queue(5)`.
DemoCapacity == 5

\* Priorities the concurrent submitters draw from: one boost lifts the lower above
\* the higher.
Priorities == {StarvedPrio, MediumPrioAlt}

\* milliseconds -> clock ticks (durations of the code are whole multiples of a tick)
MsToTicks(ms) == (ms * TicksPerSecond) \div 1000

\* The clock of the general runs stops after one boost interval.
MaxTime == BoostIntervalSec * TicksPerSecond

VARIABLES
    \* ---- AgingPriorityPool
    threads,        \* constructor argument: number of workers
    task_heap,      \* std::vector<AgedTask> kept as a max-heap (index 1 = front)
    stop,           \* std::atomic<bool>
    queue_mtx,      \* 0 = free, w = held by worker w between its predicate test and cv.wait
    wpc,            \* worker position: "lock","wait","waiting","run","done"
    activeTask,     \* the worker's local AgedTask
    busy_until,     \* clock value before which the worker's payload does not return
    mpc,            \* monitor position: "check","sleep","notify","done"
    sleep_start,    \* clock value at which the monitor's sleep_for began
    now,            \* system_clock::now(), in ticks
    spc,            \* submitter position: "idle","notify"
    next_id,        \* identity (func / task_name) of the next task enqueued
    dpc,            \* destructor position: "alive","notify","join_monitor","join_workers","finished"
    join_idx,       \* index of the worker the destructor's for loop is at
    monitor_joinable, workers_joinable,   \* std::thread::joinable()
    join_error,     \* std::system_error of join() on a thread that is not joinable
    shutdown_calls, \* how many times the shutdown body has been entered
    first_terminal, \* the pool's state when the first shutdown returned
    resident_at_stop, \* identities of the tasks in task_heap when stop was set
    executed,       \* how many times each task's payload has been invoked
    \* ---- PriorityThreadPool
    p_tasks, p_stop, p_mtx, p_wpc, p_task, p_main, p_dpc, p_order,
    \* ---- BoundedBlockingQueue
    buffer,         \* std::queue<int>, front first
    max_capacity,   \* constructor argument
    mtx,            \* 0 = free, t = held by thread t
    is_shutdown,    \* std::atomic<bool>
    bq_pc,          \* position of each producer / consumer thread
    bq_val,         \* val of the push a producer is in (or was last in)
    output_val,     \* what a consumer's last successful pop stored
    bq_ret,         \* what the thread's last push / pop returned: "none","true","false"
    bq_next,        \* the next value a producer will push
    drained,        \* how many pops have returned true after shut_down set the flag
    pushed,         \* history: the values of the pushes that returned true, in push order
    popped,         \* history: the values of the pops that returned true, in pop order
    \* ---- RWLock
    active_readers, \* int
    waiting_writers,\* int
    writer_active,  \* bool
    rw_pc,          \* thread position: "idle","enter","waiting","relock","reading","writing"
    \* ---- request-response ThreadPool (futures)
    rr_threads,     \* constructor argument num_threads
    rr_tasks,       \* std::queue<Task>, front first; a wrapper is named by its packaged_task
    rr_stop,        \* std::atomic<bool>
    rr_mtx,         \* 0 = free, w = held by worker w between its predicate test and cv.wait
    rr_wpc,         \* worker position: "lock","wait","waiting","run","done"
    rr_task,        \* the worker's local Task (0 = empty std::function)
    rr_future,      \* shared state of each packaged_task: valid, ready, value
    rr_runs,        \* how many times each packaged_task has been invoked
    rr_main,        \* main's position: "enqueue","notify","get","notify_all","join","finished"
    rr_i,           \* which enqueue call main is at
    rr_j,           \* which future main will get next
    rr_got,         \* the values main's get calls returned, in order
    rr_join,        \* index of the worker the destructor's for loop is at
    rr_queued_at_stop, \* the tasks in the queue when the destructor set stop
    \* ---- message-passing ThreadPool and ResultQueue
    mp_threads,     \* constructor argument num_threads
    mp_tasks,       \* std::queue<Task>, front first; a functor is named by its n
    mp_stop,        \* std::atomic<bool>
    mp_mtx,         \* queue_mtx: 0 = free, w = held by worker w before its cv.wait
    mp_wpc,         \* worker position: "lock","wait","waiting","run","notify","done"
    mp_task,        \* the worker's local Task (0 = empty std::function)
    mp_queue,       \* ResultQueue::queue, front first
    mp_rmtx,        \* ResultQueue::mtx: TRUE while main holds it before its cv.wait
    mp_main,        \* main's position: "enqueue","notify","pop","wait","waiting",
                    \* "notify_all","join","finished"
    mp_i,           \* loop counter of main's current for loop
    mp_received,    \* what main's pop calls returned, in order
    mp_pushed,      \* how many results each task has pushed
    mp_join,        \* index of the worker the destructor's for loop is at
    \* ---- EvenOddPrinter
    count,          \* int count = 1: the shared resource
    max_count,      \* constructor argument
    eo_pc,          \* position of printOdd / printEven: "lock","waiting","relock","done"
    printed,        \* history: what std::cout received, as <<thread, number>> records
    overflowed,     \* history: count++ has been executed with count = INT_MAX
    \* ---- the shared counter of threadtest.c
    counter,        \* uint32_t counter
    lock,           \* pthread_mutex_t: 0 = unlocked, t = locked by thread t
    use_lock,       \* whether the loop body takes the mutex (threadtest.c) or not (routine)
    rc_pc,          \* position of each thread: "loop","load","add","store","unlock","done"
    rc_reg,         \* the register each thread loads the counter into
    rc_i            \* each thread's loop counter i

agingVars == <<threads, task_heap, stop, queue_mtx, wpc, activeTask, busy_until, mpc,
               sleep_start, now, spc, next_id, dpc, join_idx, monitor_joinable,
               workers_joinable, join_error, shutdown_calls, first_terminal, resident_at_stop,
               executed>>
prioVars == <<p_tasks, p_stop, p_mtx, p_wpc, p_task, p_main, p_dpc, p_order>>
queueVars == <<buffer, max_capacity, mtx, is_shutdown, bq_pc, bq_val, output_val, bq_ret,
               bq_next, drained, pushed, popped>>
rwVars == <<active_readers, waiting_writers, writer_active, rw_pc>>
rrVars == <<rr_threads, rr_tasks, rr_stop, rr_mtx, rr_wpc, rr_task, rr_future, rr_runs,
            rr_main, rr_i, rr_j, rr_got, rr_join, rr_queued_at_stop>>
eoVars == <<count, max_count, eo_pc, printed, overflowed>>
rcVars == <<counter, lock, use_lock, rc_pc, rc_reg, rc_i>>
mpVars == <<mp_threads, mp_tasks, mp_stop, mp_mtx, mp_wpc, mp_task, mp_queue, mp_rmtx, mp_main,
            mp_i, mp_received, mp_pushed, mp_join>>
\* everything that is not the aging pool's
notAging == <<prioVars, queueVars, rwVars, rrVars, mpVars, eoVars, rcVars>>
\* everything that is not the priority pool's
notPrio == <<agingVars, queueVars, rwVars, rrVars, mpVars, eoVars, rcVars>>
\* everything that is not the bounded queue's
notQueue == <<agingVars, prioVars, rwVars, rrVars, mpVars, eoVars, rcVars>>
\* everything that is not the reader/writer lock's
notRW == <<agingVars, prioVars, queueVars, rrVars, mpVars, eoVars, rcVars>>
\* everything that is not the request-response pool's
notRR == <<agingVars, prioVars, queueVars, rwVars, mpVars, eoVars, rcVars>>
\* everything that is not the message-passing pool's
notMP == <<agingVars, prioVars, queueVars, rwVars, rrVars, eoVars, rcVars>>
\* everything that is not the even/odd printer's
notEO == <<agingVars, prioVars, queueVars, rwVars, rrVars, mpVars, rcVars>>
\* everything that is not the shared counter's
notRC == <<agingVars, prioVars, queueVars, rwVars, rrVars, mpVars, eoVars>>
vars == <<agingVars, prioVars, queueVars, rwVars, rrVars, mpVars, eoVars, rcVars>>

\* ================================================================= heap
\* The member each task struct's operator< compares: current_priority of an
\* AgedTask, priority of a PriorityTask.
SortKey(t) == IF "current_priority" \in DOMAIN t THEN t.current_priority ELSE t.priority

\* operator< of the heap's element type: the heap's only sort key.
TaskLess(a, b) == SortKey(a) < SortKey(b)

Swap(h, i, j) == [h EXCEPT ![i] = h[j], ![j] = h[i]]

RECURSIVE SiftUp(_, _)
\* std::push_heap's walk towards the front: the element at i rises while its
\* parent compares less.
SiftUp(h, i) ==
    IF i > 1 /\ TaskLess(h[i \div 2], h[i])
    THEN SiftUp(Swap(h, i, i \div 2), i \div 2)
    ELSE h

RECURSIVE SiftDown(_, _, _)
\* The element at i sinks below its larger child within h[1..n].
SiftDown(h, i, n) ==
    LET l == 2 * i
        r == 2 * i + 1
        big1 == IF l <= n /\ TaskLess(h[i], h[l]) THEN l ELSE i
        big == IF r <= n /\ TaskLess(h[big1], h[r]) THEN r ELSE big1
    IN IF big = i THEN h ELSE SiftDown(Swap(h, i, big), big, n)

\* std::push_heap(begin, end): the last element is the new one.
PushHeap(h) == SiftUp(h, Len(h))

\* std::pop_heap(begin, end): the front goes to the back, the rest is a heap.
PopHeap(h) ==
    IF Len(h) <= 1 THEN h
    ELSE SiftDown(Swap(h, 1, Len(h)), 1, Len(h) - 1)

RECURSIVE MakeHeapFrom(_, _)
MakeHeapFrom(h, i) ==
    IF i < 1 THEN h ELSE MakeHeapFrom(SiftDown(h, i, Len(h)), i - 1)

\* std::make_heap(begin, end)
MakeHeap(h) == MakeHeapFrom(h, Len(h) \div 2)

\* ======================================================= AgingPriorityPool
\* A default-constructed AgedTask whose func is empty (`AgedTask activeTask;`).
NoTask == [id |-> 0, original_priority |-> 0, current_priority |-> 0,
           arrival_time |-> 0, duration |-> 0]

Workers == 1 .. threads
Submitters == 1 .. NumSubmitters

\* duration_cast<seconds>(now - task.arrival_time).count(): truncation to whole seconds
WaitSeconds(t, tnow) == (tnow - t.arrival_time) \div TicksPerSecond

\* AgeBonus with a boost every 3 seconds, as the second copy's banner announces
AgeBonus_Every3(wait_duration) == (wait_duration \div (BoostIntervalSec + 1)) * BoostAmount

\* a single boost once the first interval has passed, instead of one per interval
AgeBonus_Once(wait_duration) ==
    IF wait_duration >= BoostIntervalSec THEN BoostAmount ELSE 0

\* (static_cast<int>(wait_duration) / 2) * 20
AgeBonus(wait_duration) == (wait_duration \div BoostIntervalSec) * BoostAmount

\* an aging that adds the bonus to the priority the task has now
AgeTask_Cumulative(t, tnow) ==
    LET age_bonus == AgeBonus(WaitSeconds(t, tnow))
    IN IF age_bonus > 0
       THEN [t EXCEPT !.current_priority = t.current_priority + age_bonus]
       ELSE t

\* an aging that restarts the wait of the task it boosts
AgeTask_ResetArrival(t, tnow) ==
    LET age_bonus == AgeBonus(WaitSeconds(t, tnow))
        new_prio == t.original_priority + age_bonus
    IN IF age_bonus > 0 /\ new_prio > t.current_priority
       THEN [t EXCEPT !.current_priority = new_prio, !.arrival_time = tnow]
       ELSE t

\* the body of applyAging's for loop, for one task
AgeTask(t, tnow) ==
    LET age_bonus == AgeBonus(WaitSeconds(t, tnow))
        new_prio == t.original_priority + age_bonus
    IN IF age_bonus > 0 /\ new_prio > t.current_priority
       THEN [t EXCEPT !.current_priority = new_prio]
       ELSE t

\* applyAging without its make_heap
ApplyAging_NoReheap(h, tnow) == [i \in 1 .. Len(h) |-> AgeTask(h[i], tnow)]

\* an aging loop that reaches only the element at the back of the vector
ApplyAging_LastOnly(h, tnow) ==
    MakeHeap([i \in 1 .. Len(h) |-> IF i = Len(h) THEN AgeTask(h[i], tnow) ELSE h[i]])

\* applyAging(): relabel every task, make_heap only when some priority changed
ApplyAging(h, tnow) ==
    LET aged == [i \in 1 .. Len(h) |-> AgeTask(h[i], tnow)]
        needs_reheap == \E i \in 1 .. Len(h) : aged[i] # h[i]
    IN IF needs_reheap THEN MakeHeap(aged) ELSE aged

\* a push_back that is not followed by push_heap
PushTask_NoPushHeap(h, t) == Append(h, t)

\* a push_back that writes over the last element, as two unsynchronised
\* push_backs would, followed by push_heap
PushTask_LostUpdate(h, t) ==
    IF h = <<>> THEN <<t>> ELSE PushHeap([h EXCEPT ![Len(h)] = t])

\* enqueue's critical section: push_back then push_heap
PushTask(h, t) == PushHeap(Append(h, t))

\* a wait loop that tests only the stop flag
WaitPred_StopOnly(s, h) == ~s

\* workerLoop: `while (!this->stop && task_heap.empty())`
WaitPred(s, h) == ~s /\ h = <<>>

\* a worker that returns as soon as stop is set
ExitPred_NoDrain(s, h) == s

\* workerLoop: `if (this->stop && task_heap.empty()) return;`
ExitPred(s, h) == s /\ h = <<>>

\* extraction that forgets pop_back: the task stays in the vector
ExtractTop_NoPopBack(h) == [task |-> PopHeap(h)[Len(h)], heap |-> PopHeap(h)]

\* workerLoop: pop_heap; activeTask = move(back()); pop_back
ExtractTop(h) ==
    LET p == PopHeap(h)
    IN [task |-> p[Len(p)], heap |-> SubSeq(p, 1, Len(p) - 1)]

\* a notification that releases only the first of the blocked workers
NotifyAll_First(pc) ==
    [w \in DOMAIN pc |->
        IF pc[w] = "waiting" /\ \A x \in DOMAIN pc : x < w => pc[x] # "waiting"
        THEN "lock"
        ELSE pc[w]]

\* cv.notify_all(): every worker blocked in cv.wait goes on to re-acquire the mutex
NotifyAll(pc) == [w \in DOMAIN pc |-> IF pc[w] = "waiting" THEN "lock" ELSE pc[w]]

\* cv.notify_one(): the set of outcomes; one blocked worker is released, if any
NotifyOne(pc) ==
    IF \E w \in DOMAIN pc : pc[w] = "waiting"
    THEN {[pc EXCEPT ![w] = "lock"] : w \in {x \in DOMAIN pc : pc[x] = "waiting"}}
    ELSE {pc}

\* a lock whose scope would reach over the payload call
LockAfterExtract_Held(w) == w

\* who holds queue_mtx once worker w has extracted: the closing brace of the
\* block destroys the unique_lock before activeTask.func() is called
LockAfterExtract(w) == 0

\* a destructor that joins without asking joinable()
JoinGuard_Always(joinable) == TRUE

\* `if (t.joinable())` of the destructor
JoinGuard(joinable) == joinable

\* std::thread::join(): the thread is no longer joinable; joining a thread that is
\* not joinable throws std::system_error
Join(joinable) == [joinable |-> FALSE, error |-> ~joinable]

\* what "the pool's terminal state" consists of
PoolState == <<stop, task_heap, wpc, mpc, monitor_joinable, workers_joinable,
               activeTask, executed, join_error>>

\* A default-constructed PriorityTask whose func is empty (`PriorityTask pTask;`).
NoPTask == [priority |-> 0, id |-> 0]

\* main(): the priorities of the four enqueue calls, in program order
PrioProgram == <<LowPrio, LowPrio, HighPrio, HighPrio>>

\* PriorityThreadPool pool(1); stop(false); main is about to enqueue
InitPrio ==
    /\ p_tasks = <<>>
    /\ p_stop = FALSE
    /\ p_mtx = 0
    /\ p_wpc = "lock"
    /\ p_task = NoPTask
    /\ p_main = 1
    /\ p_dpc = "alive"
    /\ p_order = <<>>

\* threads that use the bounded queue
Producers == 1 .. NumProducers
Consumers == NumProducers + 1 .. NumProducers + NumConsumers
QueueThreads == Producers \cup Consumers

\* BoundedBlockingQueue(size_t capacity) : max_capacity(capacity), is_shutdown{false}
InitQueue(capacity) ==
    /\ buffer = <<>>
    /\ max_capacity = capacity
    /\ mtx = 0
    /\ is_shutdown = FALSE
    /\ bq_pc = [t \in QueueThreads |-> "idle"]
    /\ bq_val = [t \in Producers |-> 0]
    /\ output_val = [t \in Consumers |-> 0]
    /\ bq_ret = [t \in QueueThreads |-> "none"]
    /\ bq_next = 1
    /\ drained = 0
    /\ pushed = <<>>
    /\ popped = <<>>

\* threads that use the reader/writer lock
Readers == 1 .. NumReaders
Writers == NumReaders + 1 .. NumReaders + NumWriters
RWThreads == Readers \cup Writers

\* RWLock rw; (the members' default initialisers)
InitRW ==
    /\ active_readers = 0
    /\ waiting_writers = 0
    /\ writer_active = FALSE
    /\ rw_pc = [t \in RWThreads |-> "idle"]

\* A packaged_task whose future has not been taken yet.
NoFuture == [valid |-> FALSE, ready |-> FALSE, value |-> 0]

\* ThreadPool(size_t num_threads) : stop(false), and main before its first enqueue
InitRR(num_threads) ==
    /\ rr_threads = num_threads
    /\ rr_tasks = <<>>
    /\ rr_stop = FALSE
    /\ rr_mtx = 0
    /\ rr_wpc = [w \in 1 .. num_threads |-> "lock"]
    /\ rr_task = [w \in 1 .. num_threads |-> 0]
    /\ rr_future = [i \in 1 .. MaxTasks |-> NoFuture]
    /\ rr_runs = [i \in 1 .. MaxTasks |-> 0]
    /\ rr_main = "enqueue"
    /\ rr_i = 1
    /\ rr_j = 1
    /\ rr_got = <<>>
    /\ rr_join = 1
    /\ rr_queued_at_stop = {}

\* ThreadPool pool(core_count); ResultQueue results; main before its first enqueue
InitMP(num_threads) ==
    /\ mp_threads = num_threads
    /\ mp_tasks = <<>>
    /\ mp_stop = FALSE
    /\ mp_mtx = 0
    /\ mp_wpc = [w \in 1 .. num_threads |-> "lock"]
    /\ mp_task = [w \in 1 .. num_threads |-> 0]
    /\ mp_queue = <<>>
    /\ mp_rmtx = FALSE
    /\ mp_main = "enqueue"
    /\ mp_i = 1
    /\ mp_received = <<>>
    /\ mp_pushed = [i \in 1 .. MaxTasks |-> 0]
    /\ mp_join = 1

\* the two threads of the even/odd printer
OddThread == 1
EvenThread == 2
EOThreads == {OddThread, EvenThread}

\* EvenOddPrinter printer(num): count = 1, max_count(num); t1 and t2 started
InitEO(num) ==
    /\ count = 1
    /\ max_count = num
    /\ eo_pc = [t \in EOThreads |-> "lock"]
    /\ printed = <<>>
    /\ overflowed = FALSE

\* the two threads that run the counting loop: main and the one it creates
RCThreads == {1, 2}

\* counter = 0; lock = PTHREAD_MUTEX_INITIALIZER; both threads at their for loop
InitRC(locking) ==
    /\ counter = 0
    /\ lock = 0
    /\ use_lock = locking
    /\ rc_pc = [t \in RCThreads |-> "loop"]
    /\ rc_reg = [t \in RCThreads |-> 0]
    /\ rc_i = [t \in RCThreads |-> 0]

\* the components a specification does not run stay as constructed
InitIdle ==
    /\ InitPrio
    /\ InitQueue(DemoCapacity)
    /\ InitRW
    /\ InitRR(DemoWorkers)
    /\ InitMP(DemoWorkers)
    /\ InitEO(0)
    /\ InitRC(TRUE)

\* AgingPriorityPool(size_t threads) : stop(false), workers and monitor started
InitAging(n) ==
    /\ threads = n
    /\ task_heap = <<>>
    /\ stop = FALSE
    /\ queue_mtx = 0
    /\ wpc = [w \in 1 .. n |-> "lock"]
    /\ activeTask = [w \in 1 .. n |-> NoTask]
    /\ busy_until = [w \in 1 .. n |-> 0]
    /\ mpc = "check"
    /\ sleep_start = 0
    /\ now = 0
    /\ spc = [s \in Submitters |-> "idle"]
    /\ next_id = 1
    /\ dpc = "alive"
    /\ join_idx = 0
    /\ monitor_joinable = TRUE
    /\ workers_joinable = [w \in 1 .. n |-> TRUE]
    /\ join_error = FALSE
    /\ shutdown_calls = 0
    /\ first_terminal = <<>>
    /\ resident_at_stop = {}
    /\ executed = <<>>

\* ---- enqueue(priority, name, f)
\* the block under lock_guard: build the task, push_back, push_heap
EnqueueLocked(s, priority, duration) ==
    /\ spc[s] = "idle"
    /\ queue_mtx = 0
    /\ LET newTask == [id |-> next_id, original_priority |-> priority,
                       current_priority |-> priority, arrival_time |-> now,
                       duration |-> duration]
       IN task_heap' = PushTask(task_heap, newTask)
    /\ executed' = Append(executed, 0)
    /\ next_id' = next_id + 1
    /\ spc' = [spc EXCEPT ![s] = "notify"]
    /\ UNCHANGED <<threads, stop, queue_mtx, wpc, activeTask, busy_until, mpc, sleep_start,
                   now, dpc, join_idx, monitor_joinable, workers_joinable, join_error,
                   shutdown_calls, first_terminal, resident_at_stop>>
    /\ UNCHANGED notAging

\* enqueue called by the pool's owner or its other users while the pool is alive
Enqueue(s, priority, duration) ==
    /\ dpc = "alive"
    /\ EnqueueLocked(s, priority, duration)

\* enqueue called by another thread once the destructor has begun: the body has
\* no test of stop, so it is the same block
EnqueueAfterStop(s, priority, duration) ==
    /\ dpc \notin {"alive", "finished"}
    /\ stop
    /\ EnqueueLocked(s, priority, duration)

\* cv.notify_one() after the lock is released
EnqueueNotify(s) ==
    /\ spc[s] = "notify"
    /\ wpc' \in NotifyOne(wpc)
    /\ spc' = [spc EXCEPT ![s] = "idle"]
    /\ UNCHANGED <<threads, task_heap, stop, queue_mtx, activeTask, busy_until, mpc,
                   sleep_start, now, next_id, dpc, join_idx, monitor_joinable,
                   workers_joinable, join_error, shutdown_calls, first_terminal, resident_at_stop, executed>>
    /\ UNCHANGED notAging

\* ---- workerLoop()
\* unique_lock taken (or re-taken on return from cv.wait), the while condition is
\* true: the worker is about to call cv.wait and still holds the mutex
WorkerTestWait(w) ==
    /\ wpc[w] = "lock"
    /\ queue_mtx = 0
    /\ WaitPred(stop, task_heap)
    /\ queue_mtx' = w
    /\ wpc' = [wpc EXCEPT ![w] = "wait"]
    /\ UNCHANGED <<threads, task_heap, stop, activeTask, busy_until, mpc, sleep_start, now,
                   spc, next_id, dpc, join_idx, monitor_joinable, workers_joinable,
                   join_error, shutdown_calls, first_terminal, resident_at_stop, executed>>
    /\ UNCHANGED notAging

\* cv.wait(lock): the mutex is released and the worker blocks, atomically
WorkerWait(w) ==
    /\ wpc[w] = "wait"
    /\ queue_mtx = w
    /\ queue_mtx' = 0
    /\ wpc' = [wpc EXCEPT ![w] = "waiting"]
    /\ UNCHANGED <<threads, task_heap, stop, activeTask, busy_until, mpc, sleep_start, now,
                   spc, next_id, dpc, join_idx, monitor_joinable, workers_joinable,
                   join_error, shutdown_calls, first_terminal, resident_at_stop, executed>>
    /\ UNCHANGED notAging

\* a spurious wake-up, which cv.wait permits
WorkerSpuriousWake(w) ==
    /\ wpc[w] = "waiting"
    /\ wpc' = [wpc EXCEPT ![w] = "lock"]
    /\ UNCHANGED <<threads, task_heap, stop, queue_mtx, activeTask, busy_until, mpc,
                   sleep_start, now, spc, next_id, dpc, join_idx, monitor_joinable,
                   workers_joinable, join_error, shutdown_calls, first_terminal, resident_at_stop, executed>>
    /\ UNCHANGED notAging

\* the loop is left and `if (stop && task_heap.empty()) return;` returns
WorkerExit(w) ==
    /\ wpc[w] = "lock"
    /\ queue_mtx = 0
    /\ ~WaitPred(stop, task_heap)
    /\ ExitPred(stop, task_heap)
    /\ wpc' = [wpc EXCEPT ![w] = "done"]
    /\ UNCHANGED <<threads, task_heap, stop, queue_mtx, activeTask, busy_until, mpc,
                   sleep_start, now, spc, next_id, dpc, join_idx, monitor_joinable,
                   workers_joinable, join_error, shutdown_calls, first_terminal, resident_at_stop, executed>>
    /\ UNCHANGED notAging

\* the loop is left, no return: the top of the heap moves to activeTask and the
\* lock is released at the end of the block
WorkerExtract(w) ==
    /\ wpc[w] = "lock"
    /\ queue_mtx = 0
    /\ ~WaitPred(stop, task_heap)
    /\ ~ExitPred(stop, task_heap)
    /\ LET x == ExtractTop(task_heap)
       IN /\ activeTask' = [activeTask EXCEPT ![w] = x.task]
          /\ task_heap' = x.heap
    /\ busy_until' = [busy_until EXCEPT ![w] =
                         IF ExtractTop(task_heap).task.duration = 0 THEN 0
                         ELSE now + ExtractTop(task_heap).task.duration]
    /\ wpc' = [wpc EXCEPT ![w] = "run"]
    /\ queue_mtx' = LockAfterExtract(w)
    /\ UNCHANGED <<threads, stop, mpc, sleep_start, now, spc,
                   next_id, dpc, join_idx, monitor_joinable, workers_joinable, join_error,
                   shutdown_calls, first_terminal, resident_at_stop, executed>>
    /\ UNCHANGED notAging

\* `if (activeTask.func) activeTask.func();` outside the lock: the payload runs
\* (HeavyTask sleeps for at least its duration) and returns; the next iteration
\* starts with a fresh activeTask
WorkerRun(w) ==
    /\ wpc[w] = "run"
    /\ now >= busy_until[w]
    /\ executed' = [executed EXCEPT ![activeTask[w].id] = @ + 1]
    /\ activeTask' = [activeTask EXCEPT ![w] = NoTask]
    /\ busy_until' = [busy_until EXCEPT ![w] = 0]
    /\ wpc' = [wpc EXCEPT ![w] = "lock"]
    /\ queue_mtx' = IF queue_mtx = w THEN 0 ELSE queue_mtx
    /\ UNCHANGED <<threads, task_heap, stop, mpc, sleep_start, now, spc,
                   next_id, dpc, join_idx, monitor_joinable, workers_joinable, join_error,
                   shutdown_calls, first_terminal, resident_at_stop>>
    /\ UNCHANGED notAging

\* `activeTask.func();` throws. workerLoop has no try block and is the thread's
\* entry function, so the exception leaves it and std::terminate ends the
\* process: every thread of the program is gone.
WorkerThrow(w) ==
    /\ wpc[w] = "run"
    /\ now >= busy_until[w]
    /\ executed' = [executed EXCEPT ![activeTask[w].id] = @ + 1]
    /\ wpc' = [v \in DOMAIN wpc |-> "terminated"]
    /\ mpc' = "terminated"
    /\ spc' = [s \in DOMAIN spc |-> "terminated"]
    /\ dpc' = "terminated"
    /\ UNCHANGED <<threads, task_heap, stop, queue_mtx, activeTask, busy_until, sleep_start,
                   now, next_id, join_idx, monitor_joinable, workers_joinable, join_error,
                   shutdown_calls, first_terminal, resident_at_stop>>
    /\ UNCHANGED notAging

\* ---- monitorLoop()
\* a monitor whose loop has no exit
MonitorLeaves_Never(s) == FALSE

\* `while (!stop)`: the loop is left when the test finds stop set
MonitorLeaves(s) == s

\* `while (!stop)`: leave, or start sleep_for(1000 ms)
MonitorCheck ==
    /\ mpc = "check"
    /\ IF MonitorLeaves(stop)
       THEN mpc' = "done" /\ sleep_start' = 0
       ELSE mpc' = "sleep" /\ sleep_start' = now
    /\ UNCHANGED <<threads, task_heap, stop, queue_mtx, wpc, activeTask, busy_until, now,
                   spc, next_id, dpc, join_idx, monitor_joinable, workers_joinable,
                   join_error, shutdown_calls, first_terminal, resident_at_stop, executed>>
    /\ UNCHANGED notAging

\* the sleep is over (at least 1000 ms have passed); lock_guard; applyAging()
MonitorAge ==
    /\ mpc = "sleep"
    /\ now - sleep_start >= MsToTicks(MonitorSleepMs)
    /\ queue_mtx = 0
    /\ task_heap' = ApplyAging(task_heap, now)
    /\ mpc' = "notify"
    /\ sleep_start' = 0
    /\ UNCHANGED <<threads, stop, queue_mtx, wpc, activeTask, busy_until, now, spc,
                   next_id, dpc, join_idx, monitor_joinable, workers_joinable, join_error,
                   shutdown_calls, first_terminal, resident_at_stop, executed>>
    /\ UNCHANGED notAging

\* cv.notify_all() after the aging pass
MonitorNotify ==
    /\ mpc = "notify"
    /\ wpc' = NotifyAll(wpc)
    /\ mpc' = "check"
    /\ UNCHANGED <<threads, task_heap, stop, queue_mtx, activeTask, busy_until,
                   sleep_start, now, spc, next_id, dpc, join_idx, monitor_joinable,
                   workers_joinable, join_error, shutdown_calls, first_terminal, resident_at_stop, executed>>
    /\ UNCHANGED notAging

\* ---- ~AgingPriorityPool()
\* `stop = true;` : written without queue_mtx.  No enqueue is in progress when the
\* pool is destroyed.
DtorSetStop ==
    /\ dpc = "alive"
    /\ \A s \in Submitters : spc[s] = "idle"
    /\ stop' = TRUE
    /\ dpc' = "notify"
    /\ shutdown_calls' = shutdown_calls + 1
    /\ resident_at_stop' = {task_heap[i].id : i \in 1 .. Len(task_heap)}
    /\ UNCHANGED <<threads, task_heap, queue_mtx, wpc, activeTask, busy_until, mpc,
                   sleep_start, now, spc, next_id, join_idx, monitor_joinable,
                   workers_joinable, join_error, first_terminal, executed>>
    /\ UNCHANGED notAging

\* `cv.notify_all();`
DtorNotifyAll ==
    /\ dpc = "notify"
    /\ wpc' = NotifyAll(wpc)
    /\ dpc' = "join_monitor"
    /\ UNCHANGED <<threads, task_heap, stop, queue_mtx, activeTask, busy_until, mpc,
                   sleep_start, now, spc, next_id, join_idx, monitor_joinable,
                   workers_joinable, join_error, shutdown_calls, first_terminal, resident_at_stop, executed>>
    /\ UNCHANGED notAging

\* `if (monitor_thread.joinable()) monitor_thread.join();`
DtorJoinMonitor ==
    /\ dpc = "join_monitor"
    /\ IF JoinGuard(monitor_joinable)
       THEN /\ mpc = "done"
            /\ monitor_joinable' = Join(monitor_joinable).joinable
            /\ join_error' = (join_error \/ Join(monitor_joinable).error)
       ELSE UNCHANGED <<monitor_joinable, join_error>>
    /\ dpc' = "join_workers"
    /\ join_idx' = 1
    /\ UNCHANGED <<threads, task_heap, stop, queue_mtx, wpc, activeTask, busy_until, mpc,
                   sleep_start, now, spc, next_id, workers_joinable, shutdown_calls,
                   first_terminal, resident_at_stop, executed>>
    /\ UNCHANGED notAging

\* one iteration of `for (auto &w : workers) if (w.joinable()) w.join();`
DtorJoinWorker ==
    /\ dpc = "join_workers"
    /\ join_idx <= threads
    /\ IF JoinGuard(workers_joinable[join_idx])
       THEN /\ wpc[join_idx] = "done"
            /\ workers_joinable' = [workers_joinable EXCEPT ![join_idx] = Join(@).joinable]
            /\ join_error' = (join_error \/ Join(workers_joinable[join_idx]).error)
       ELSE UNCHANGED <<workers_joinable, join_error>>
    /\ join_idx' = join_idx + 1
    /\ UNCHANGED <<threads, task_heap, stop, queue_mtx, wpc, activeTask, busy_until, mpc,
                   sleep_start, now, spc, next_id, dpc, monitor_joinable, shutdown_calls,
                   first_terminal, resident_at_stop, executed>>
    /\ UNCHANGED notAging

\* the for loop is over: the shutdown body returns
DtorReturn ==
    /\ dpc = "join_workers"
    /\ join_idx > threads
    /\ dpc' = "finished"
    /\ join_idx' = 0
    /\ first_terminal' = IF shutdown_calls = 1 THEN PoolState ELSE first_terminal
    /\ UNCHANGED <<threads, task_heap, stop, queue_mtx, wpc, activeTask, busy_until, mpc,
                   sleep_start, now, spc, next_id, monitor_joinable, workers_joinable,
                   join_error, shutdown_calls, resident_at_stop, executed>>
    /\ UNCHANGED notAging

\* ---- the clock
Tick(last) ==
    /\ now < last
    /\ now' = now + 1
    /\ UNCHANGED <<threads, task_heap, stop, queue_mtx, wpc, activeTask, busy_until, mpc,
                   sleep_start, spc, next_id, dpc, join_idx, monitor_joinable,
                   workers_joinable, join_error, shutdown_calls, first_terminal, resident_at_stop, executed>>
    /\ UNCHANGED notAging

WorkerStep(w) ==
    \/ WorkerTestWait(w)
    \/ WorkerWait(w)
    \/ WorkerSpuriousWake(w)
    \/ WorkerExit(w)
    \/ WorkerExtract(w)
    \/ WorkerRun(w)

MonitorStep == MonitorCheck \/ MonitorAge \/ MonitorNotify

DtorStep == DtorSetStop \/ DtorNotifyAll \/ DtorJoinMonitor \/ DtorJoinWorker \/ DtorReturn

\* The pool under concurrent submitters that enqueue tasks of any priority at any time.
Init == (\E n \in 0 .. NumWorkers : InitAging(n)) /\ InitIdle

Next ==
    \/ \E s \in Submitters, p \in Priorities : next_id <= MaxTasks /\ Enqueue(s, p, 0)
    \/ \E s \in Submitters : EnqueueNotify(s)
    \/ \E w \in Workers : WorkerStep(w)
    \/ MonitorStep
    \/ DtorStep
    \/ Tick(MaxTime)

Spec == Init /\ [][Next]_vars

\* The shutdown body (the destructor's statements) entered again after it returned.
ShutdownAgain ==
    /\ dpc = "finished"
    /\ shutdown_calls < MaxShutdownCalls
    /\ stop' = TRUE
    /\ dpc' = "notify"
    /\ shutdown_calls' = shutdown_calls + 1
    /\ UNCHANGED <<threads, task_heap, queue_mtx, wpc, activeTask, busy_until, mpc,
                   sleep_start, now, spc, next_id, join_idx, monitor_joinable,
                   workers_joinable, join_error, first_terminal, resident_at_stop,
                   executed>>
    /\ UNCHANGED notAging

\* The pool whose shutdown body is run more than once.
SpecShutdownTwice == Init /\ [][Next \/ ShutdownAgain]_vars

\* both demonstrations construct their pool with one worker
InitDemo == InitAging(DemoWorkers) /\ InitIdle

\* ====================================================== PriorityThreadPool
\* enqueue up to the closing brace of the locked block: tasks.push under queue_mtx
PEnqueue ==
    /\ p_dpc = "alive"
    /\ p_main <= Len(PrioProgram)
    /\ p_mtx = 0
    /\ p_tasks' = PushHeap(Append(p_tasks, [priority |-> PrioProgram[p_main], id |-> p_main]))
    /\ p_dpc' = "notify"
    /\ UNCHANGED <<p_stop, p_mtx, p_wpc, p_task, p_main, p_order>>
    /\ UNCHANGED notPrio

\* enqueue: cv.notify_one() after the lock is released
PEnqueueNotify ==
    /\ p_dpc = "notify"
    /\ p_wpc' = IF p_wpc = "waiting" THEN "lock" ELSE p_wpc
    /\ p_main' = p_main + 1
    /\ p_dpc' = "alive"
    /\ UNCHANGED <<p_tasks, p_stop, p_mtx, p_task, p_order>>
    /\ UNCHANGED notPrio

\* workerLoop: the lock is taken and the while condition holds; cv.wait is next
PWorkerTestWait ==
    /\ p_wpc = "lock"
    /\ p_mtx = 0
    /\ WaitPred(p_stop, p_tasks)
    /\ p_wpc' = "wait"
    /\ p_mtx' = 1
    /\ UNCHANGED <<p_tasks, p_stop, p_task, p_main, p_dpc, p_order>>
    /\ UNCHANGED notPrio

\* cv.wait(lock): the mutex is released and the worker blocks
PWorkerWait ==
    /\ p_wpc = "wait"
    /\ p_wpc' = "waiting"
    /\ p_mtx' = 0
    /\ UNCHANGED <<p_tasks, p_stop, p_task, p_main, p_dpc, p_order>>
    /\ UNCHANGED notPrio

\* cv.wait may return without a notification
PWorkerSpuriousWake ==
    /\ p_wpc = "waiting"
    /\ p_wpc' = "lock"
    /\ UNCHANGED <<p_tasks, p_stop, p_mtx, p_task, p_main, p_dpc, p_order>>
    /\ UNCHANGED notPrio

\* `if (this->stop && this->tasks.empty()) return;`
PWorkerExit ==
    /\ p_wpc = "lock"
    /\ p_mtx = 0
    /\ ExitPred(p_stop, p_tasks)
    /\ p_wpc' = "done"
    /\ UNCHANGED <<p_tasks, p_stop, p_mtx, p_task, p_main, p_dpc, p_order>>
    /\ UNCHANGED notPrio

\* pTask = move(tasks.top()); tasks.pop(); the lock is released at the brace
PWorkerExtract ==
    /\ p_wpc = "lock"
    /\ p_mtx = 0
    /\ p_tasks # <<>>
    /\ LET x == ExtractTop(p_tasks)
       IN /\ p_task' = x.task
          /\ p_tasks' = x.heap
          /\ p_order' = Append(p_order, x.task.priority)
    /\ p_wpc' = "run"
    /\ UNCHANGED <<p_stop, p_mtx, p_main, p_dpc>>
    /\ UNCHANGED notPrio

\* `if (pTask.func) pTask.func();` and the next iteration's fresh pTask
PWorkerRun ==
    /\ p_wpc = "run"
    /\ p_task' = NoPTask
    /\ p_wpc' = "lock"
    /\ UNCHANGED <<p_tasks, p_stop, p_mtx, p_main, p_dpc, p_order>>
    /\ UNCHANGED notPrio

\* main returns after its sleep; ~PriorityThreadPool: stop = true (no lock held)
PDtorSetStop ==
    /\ p_dpc = "alive"
    /\ p_main > Len(PrioProgram)
    /\ p_stop' = TRUE
    /\ p_dpc' = "notify_all"
    /\ UNCHANGED <<p_tasks, p_mtx, p_wpc, p_task, p_main, p_order>>
    /\ UNCHANGED notPrio

\* ~PriorityThreadPool: cv.notify_all()
PDtorNotifyAll ==
    /\ p_dpc = "notify_all"
    /\ p_wpc' = IF p_wpc = "waiting" THEN "lock" ELSE p_wpc
    /\ p_dpc' = "join"
    /\ UNCHANGED <<p_tasks, p_stop, p_mtx, p_task, p_main, p_order>>
    /\ UNCHANGED notPrio

\* ~PriorityThreadPool: w.join() returns once the worker has returned
PDtorJoin ==
    /\ p_dpc = "join"
    /\ p_wpc = "done"
    /\ p_dpc' = "finished"
    /\ UNCHANGED <<p_tasks, p_stop, p_mtx, p_wpc, p_task, p_main, p_order>>
    /\ UNCHANGED notPrio

NextPrio ==
    \/ PEnqueue
    \/ PEnqueueNotify
    \/ PWorkerTestWait
    \/ PWorkerWait
    \/ PWorkerSpuriousWake
    \/ PWorkerExit
    \/ PWorkerExtract
    \/ PWorkerRun
    \/ PDtorSetStop
    \/ PDtorNotifyAll
    \/ PDtorJoin

\* The priority demonstration: one worker, main's four enqueue calls, destruction.
SpecPrio == InitDemo /\ [][NextPrio]_vars

\* ---- the aging demonstration, main()
\* enqueue(100, BLOCKING, 4000 ms); enqueue(20, STARVED, 500 ms); then the flood
\* of enqueue(50, MEDIUM_i, 1000 ms)
DemoProgram ==
    <<[priority |-> BlockingPrio, ms |-> BlockingMs],
      [priority |-> StarvedPrio, ms |-> StarvedMs]>>
    \o [i \in 1 .. FloodCount |-> [priority |-> MediumPrio, ms |-> MediumMs]]

\* main's next enqueue call
DemoEnqueue ==
    /\ next_id <= Len(DemoProgram)
    /\ Enqueue(1, DemoProgram[next_id].priority, MsToTicks(DemoProgram[next_id].ms))

\* main's enqueue calls are back to back: they are over before the clock moves on
DemoTick ==
    /\ next_id > Len(DemoProgram)
    /\ spc[1] = "idle"
    /\ Tick(DemoMaxTime)

\* a worker of a pool that is not being destroyed
RunningWorkerStep(w) ==
    \/ WorkerTestWait(w)
    \/ WorkerWait(w)
    \/ WorkerSpuriousWake(w)
    \/ WorkerExtract(w)
    \/ WorkerRun(w)

NextDemo ==
    \/ DemoEnqueue
    \/ EnqueueNotify(1)
    \/ \E w \in Workers : RunningWorkerStep(w)
    \/ MonitorStep
    \/ DemoTick

\* The demonstration while main sleeps its 20 s (the pool is not destroyed yet).
SpecDemo == InitDemo /\ [][NextDemo]_vars

\* ---- a priority-20 task in a flood of priority-50 tasks that arrive at any time
\* boosts a priority-20 task needs to pass an unaged priority-50 task, and the
\* residency that earns them
BoostsNeeded == (MediumPrio - StarvedPrio) \div BoostAmount + 1
FloodMaxTime == BoostsNeeded * BoostIntervalSec * TicksPerSecond

FloodProgram == <<MediumPrio, StarvedPrio>> \o [i \in 1 .. FloodCount - 1 |-> MediumPrio]

FloodEnqueue ==
    /\ next_id <= Len(FloodProgram)
    /\ Enqueue(1, FloodProgram[next_id], 0)

NextFlood ==
    \/ FloodEnqueue
    \/ EnqueueNotify(1)
    \/ \E w \in Workers : RunningWorkerStep(w)
    \/ MonitorStep
    \/ Tick(FloodMaxTime)

SpecFlood == InitDemo /\ [][NextFlood]_vars

\* a scheduled worker of a pool that is not being destroyed
RunningWorkerProgress(w) ==
    /\ w \in Workers
    /\ \/ WorkerTestWait(w)
       \/ WorkerWait(w)
       \/ WorkerExtract(w)
       \/ WorkerRun(w)

FairFlood ==
    /\ SpecFlood
    /\ SF_vars(RunningWorkerProgress(DemoWorkers))
    /\ WF_vars(EnqueueNotify(1))

\* The pool with submitters that keep calling enqueue while it is being destroyed.
LateEnqueue ==
    \E s \in Submitters, p \in Priorities :
        next_id <= MaxTasks /\ EnqueueAfterStop(s, p, 0)

SpecLateEnqueue == Init /\ [][Next \/ LateEnqueue]_vars

\* ---- a one-worker pool whose heap is loaded with tasks of three priorities
HeapPriorities == {StarvedPrio, MediumPrioAlt, MediumPrio}

HeapEnqueue ==
    \E p \in HeapPriorities : next_id <= HeapTasks /\ Enqueue(1, p, 0)

NextHeapLoad ==
    \/ HeapEnqueue
    \/ EnqueueNotify(1)
    \/ \E w \in Workers : RunningWorkerStep(w)
    \/ MonitorStep
    \/ Tick(MaxTime)

SpecHeapLoad == InitDemo /\ [][NextHeapLoad]_vars

\* The pool with payloads that may throw.
SpecThrowing == Init /\ [][Next \/ \E w \in Workers : WorkerThrow(w)]_vars

\* what a scheduled worker does next; a spurious wake-up is never owed
WorkerProgress(w) ==
    /\ w \in Workers
    /\ \/ WorkerTestWait(w)
       \/ WorkerWait(w)
       \/ WorkerExit(w)
       \/ WorkerExtract(w)
       \/ WorkerRun(w)

\* Fair scheduling: a worker that can repeatedly take a step (the mutex is free
\* again and again) takes it, and an enqueue call in progress reaches its notify_one.
Fairness ==
    /\ \A w \in 1 .. NumWorkers : SF_vars(WorkerProgress(w))
    /\ \A s \in Submitters : WF_vars(EnqueueNotify(s))

FairSpec == Init /\ [][Next]_vars /\ Fairness

\* ==================================================== BoundedBlockingQueue
\* a push that waits only while the queue is running, whatever the buffer holds
PushMustWait_IgnoreSize(buf, cap, sd) == FALSE

\* push: `while (buffer.size() >= max_capacity && !is_shutdown)`
PushMustWait(buf, cap, sd) == Len(buf) >= cap /\ ~sd

\* a push that never looks at the flag
PushRejects_Never(sd) == FALSE

\* push: `if (is_shutdown) return false;`
PushRejects(sd) == sd

\* pop: `while (buffer.empty() && !is_shutdown)`
PopMustWait(buf, sd) == buf = <<>> /\ ~sd

\* a pop that reports shutdown as soon as the flag is set
PopFails_NoDrain(buf, sd) == sd

\* pop: `if (buffer.empty() && is_shutdown) return false;`
PopFails(buf, sd) == buf = <<>> /\ sd

\* a pop that takes the element pushed last
TakeFront_Back(buf) == [val |-> buf[Len(buf)], rest |-> SubSeq(buf, 1, Len(buf) - 1)]

\* pop: output_val = buffer.front(); buffer.pop();
TakeFront(buf) == [val |-> Head(buf), rest |-> Tail(buf)]

\* notify_all on a condition variable: every thread of `among` blocked in wait
\* goes on to re-acquire the mutex
WakeAll(pc, among) ==
    [t \in DOMAIN pc |-> IF t \in among /\ pc[t] = "waiting" THEN "relock" ELSE pc[t]]

\* notify_one: the set of outcomes; one blocked thread of `among` is released, if any
WakeOne(pc, among) ==
    IF \E t \in among : pc[t] = "waiting"
    THEN {[pc EXCEPT ![t] = "relock"] : t \in {x \in among : pc[x] = "waiting"}}
    ELSE {pc}

\* push(val): the unique_lock is taken (on entry, or on return from wait) and the
\* while condition evaluated; the thread keeps the mutex
PushTest(t) ==
    /\ t \in Producers
    /\ bq_pc[t] \in {"idle", "relock"}
    /\ mtx = 0
    /\ mtx' = t
    /\ IF bq_pc[t] = "idle"
       THEN /\ bq_next <= MaxItems
            /\ bq_val' = [bq_val EXCEPT ![t] = bq_next]
            /\ bq_next' = bq_next + 1
            /\ bq_ret' = [bq_ret EXCEPT ![t] = "none"]
       ELSE UNCHANGED <<bq_val, bq_next, bq_ret>>
    /\ bq_pc' = [bq_pc EXCEPT ![t] =
                    IF PushMustWait(buffer, max_capacity, is_shutdown) THEN "wait" ELSE "check"]
    /\ UNCHANGED <<buffer, max_capacity, is_shutdown, output_val, drained, pushed, popped>>
    /\ UNCHANGED notQueue

\* pop(output_val): the same for a consumer
PopTest(t) ==
    /\ t \in Consumers
    /\ bq_pc[t] \in {"idle", "relock"}
    /\ mtx = 0
    /\ mtx' = t
    /\ bq_ret' = [bq_ret EXCEPT ![t] = IF bq_pc[t] = "idle" THEN "none" ELSE @]
    /\ bq_pc' = [bq_pc EXCEPT ![t] =
                    IF PopMustWait(buffer, is_shutdown) THEN "wait" ELSE "check"]
    /\ UNCHANGED <<buffer, max_capacity, is_shutdown, bq_val, output_val, bq_next, drained, pushed, popped>>
    /\ UNCHANGED notQueue

\* not_full.wait(lock) / not_empty.wait(lock): the mutex is released and the
\* thread blocks
QueueWait(t) ==
    /\ bq_pc[t] = "wait"
    /\ bq_pc' = [bq_pc EXCEPT ![t] = "waiting"]
    /\ mtx' = 0
    /\ UNCHANGED <<buffer, max_capacity, is_shutdown, bq_val, output_val, bq_ret, bq_next, drained, pushed, popped>>
    /\ UNCHANGED notQueue

\* wait may return without a notification
QueueSpuriousWake(t) ==
    /\ bq_pc[t] = "waiting"
    /\ bq_pc' = [bq_pc EXCEPT ![t] = "relock"]
    /\ UNCHANGED <<buffer, max_capacity, mtx, is_shutdown, bq_val, output_val, bq_ret, bq_next, drained, pushed, popped>>
    /\ UNCHANGED notQueue

\* push after its loop: return false on shutdown, else buffer.push(val),
\* not_empty.notify_one(), return true; the lock is released on return
PushCheck(t) ==
    /\ t \in Producers
    /\ bq_pc[t] = "check"
    /\ mtx' = 0
    /\ IF PushRejects(is_shutdown)
       THEN /\ bq_ret' = [bq_ret EXCEPT ![t] = "false"]
            /\ bq_pc' = [bq_pc EXCEPT ![t] = "idle"]
            /\ UNCHANGED <<buffer, pushed>>
       ELSE /\ buffer' = Append(buffer, bq_val[t])
            /\ pushed' = Append(pushed, bq_val[t])
            /\ bq_ret' = [bq_ret EXCEPT ![t] = "true"]
            /\ bq_pc' \in WakeOne([bq_pc EXCEPT ![t] = "idle"], Consumers)
    /\ UNCHANGED <<max_capacity, is_shutdown, bq_val, output_val, bq_next, drained, popped>>
    /\ UNCHANGED notQueue

\* pop after its loop: return false when empty and shut down, else take the
\* front, not_full.notify_one(), return true
PopCheck(t) ==
    /\ t \in Consumers
    /\ bq_pc[t] = "check"
    /\ mtx' = 0
    /\ IF PopFails(buffer, is_shutdown)
       THEN /\ bq_ret' = [bq_ret EXCEPT ![t] = "false"]
            /\ bq_pc' = [bq_pc EXCEPT ![t] = "idle"]
            /\ UNCHANGED <<buffer, output_val, drained, popped>>
       ELSE /\ output_val' = [output_val EXCEPT ![t] = TakeFront(buffer).val]
            /\ buffer' = TakeFront(buffer).rest
            /\ popped' = Append(popped, TakeFront(buffer).val)
            /\ drained' = IF is_shutdown THEN drained + 1 ELSE drained
            /\ bq_ret' = [bq_ret EXCEPT ![t] = "true"]
            /\ bq_pc' \in WakeOne([bq_pc EXCEPT ![t] = "idle"], Producers)
    /\ UNCHANGED <<max_capacity, is_shutdown, bq_val, bq_next, pushed>>
    /\ UNCHANGED notQueue

\* shut_down(): `is_shutdown = true;` (no lock is taken)
ShutDownSet(t) ==
    /\ bq_pc[t] = "idle"
    /\ is_shutdown' = TRUE
    /\ bq_pc' = [bq_pc EXCEPT ![t] = "sd_not_full"]
    /\ UNCHANGED <<buffer, max_capacity, mtx, bq_val, output_val, bq_ret, bq_next, drained, pushed, popped>>
    /\ UNCHANGED notQueue

\* shut_down(): `not_full.notify_all();`
ShutDownNotifyFull(t) ==
    /\ bq_pc[t] = "sd_not_full"
    /\ bq_pc' = [WakeAll(bq_pc, Producers) EXCEPT ![t] = "sd_not_empty"]
    /\ UNCHANGED <<buffer, max_capacity, mtx, is_shutdown, bq_val, output_val, bq_ret, bq_next, drained, pushed, popped>>
    /\ UNCHANGED notQueue

\* shut_down(): `not_empty.notify_all(); return;`
ShutDownNotifyEmpty(t) ==
    /\ bq_pc[t] = "sd_not_empty"
    /\ bq_pc' = [WakeAll(bq_pc, Consumers) EXCEPT ![t] = "idle"]
    /\ UNCHANGED <<buffer, max_capacity, mtx, is_shutdown, bq_val, output_val, bq_ret, bq_next, drained, pushed, popped>>
    /\ UNCHANGED notQueue

\* producerTask / consumerTask return: the thread makes no further call
QueueThreadExit(t) ==
    /\ bq_pc[t] = "idle"
    /\ bq_pc' = [bq_pc EXCEPT ![t] = "done"]
    /\ UNCHANGED <<buffer, max_capacity, mtx, is_shutdown, bq_val, output_val, bq_ret, bq_next, drained, pushed, popped>>
    /\ UNCHANGED notQueue

NextQueue ==
    \E t \in QueueThreads :
        \/ PushTest(t)
        \/ PopTest(t)
        \/ QueueWait(t)
        \/ QueueSpuriousWake(t)
        \/ PushCheck(t)
        \/ PopCheck(t)
        \/ ShutDownSet(t)
        \/ ShutDownNotifyFull(t)
        \/ ShutDownNotifyEmpty(t)
        \/ QueueThreadExit(t)

InitQueueRun ==
    /\ InitAging(DemoWorkers)
    /\ InitPrio
    /\ InitRW
    /\ InitRR(DemoWorkers)
    /\ InitMP(DemoWorkers)
    /\ InitEO(0)
    /\ InitRC(TRUE)
    /\ \E capacity \in 1 .. MaxCapacity : InitQueue(capacity)

\* A queue of any capacity used by producers and consumers that push, pop, shut
\* the queue down and leave in any order.
SpecQueue == InitQueueRun /\ [][NextQueue]_vars

\* ================================================================== RWLock
\* Every member function holds mtx from entry to return, and cv.wait gives it up
\* and takes it back, so each stretch between two waits is one action.

\* a reader that looks only at the active writer
ReadMustWait_NoPreference(wa, ww) == wa

\* lock_read: `while (writer_active || waiting_writers > 0)`
ReadMustWait(wa, ww) == wa \/ ww > 0

\* a writer that does not wait for the readers to leave
WriteMustWait_IgnoreReaders(ar, wa) == wa

\* lock_write: `while (active_readers > 0 || writer_active)`
WriteMustWait(ar, wa) == ar > 0 \/ wa

\* cv.notify_all(): every thread blocked in cv.wait goes on to re-acquire mtx
RWNotifyAll(pc) == [t \in DOMAIN pc |-> IF pc[t] = "waiting" THEN "relock" ELSE pc[t]]

\* readerTask / writerTask calls lock_read / lock_write
RWCall(t) ==
    /\ rw_pc[t] = "idle"
    /\ rw_pc' = [rw_pc EXCEPT ![t] = "enter"]
    /\ UNCHANGED <<active_readers, waiting_writers, writer_active>>
    /\ UNCHANGED notRW

\* lock_read with mtx taken on entry or on return from cv.wait: wait again, or
\* active_readers++ and return
LockRead(t) ==
    /\ t \in Readers
    /\ rw_pc[t] \in {"enter", "relock"}
    /\ IF ReadMustWait(writer_active, waiting_writers)
       THEN /\ rw_pc' = [rw_pc EXCEPT ![t] = "waiting"]
            /\ UNCHANGED active_readers
       ELSE /\ active_readers' = active_readers + 1
            /\ rw_pc' = [rw_pc EXCEPT ![t] = "reading"]
    /\ UNCHANGED <<waiting_writers, writer_active>>
    /\ UNCHANGED notRW

\* unlock_read: active_readers--, notify_all when it reaches 0
UnlockRead(t) ==
    /\ t \in Readers
    /\ rw_pc[t] = "reading"
    /\ active_readers' = active_readers - 1
    /\ rw_pc' = IF active_readers - 1 = 0
                THEN RWNotifyAll([rw_pc EXCEPT ![t] = "idle"])
                ELSE [rw_pc EXCEPT ![t] = "idle"]
    /\ UNCHANGED <<waiting_writers, writer_active>>
    /\ UNCHANGED notRW

\* lock_write from its entry: waiting_writers++, then the loop's first test
LockWrite(t) ==
    /\ t \in Writers
    /\ rw_pc[t] = "enter"
    /\ IF WriteMustWait(active_readers, writer_active)
       THEN /\ waiting_writers' = waiting_writers + 1
            /\ rw_pc' = [rw_pc EXCEPT ![t] = "waiting"]
            /\ UNCHANGED writer_active
       ELSE /\ waiting_writers' = (waiting_writers + 1) - 1
            /\ writer_active' = TRUE
            /\ rw_pc' = [rw_pc EXCEPT ![t] = "writing"]
    /\ UNCHANGED active_readers
    /\ UNCHANGED notRW

\* lock_write on return from cv.wait: wait again, or waiting_writers-- and
\* writer_active = true
LockWriteRetest(t) ==
    /\ t \in Writers
    /\ rw_pc[t] = "relock"
    /\ IF WriteMustWait(active_readers, writer_active)
       THEN /\ rw_pc' = [rw_pc EXCEPT ![t] = "waiting"]
            /\ UNCHANGED <<waiting_writers, writer_active>>
       ELSE /\ waiting_writers' = waiting_writers - 1
            /\ writer_active' = TRUE
            /\ rw_pc' = [rw_pc EXCEPT ![t] = "writing"]
    /\ UNCHANGED active_readers
    /\ UNCHANGED notRW

\* unlock_write: writer_active = false, notify_all
UnlockWrite(t) ==
    /\ t \in Writers
    /\ rw_pc[t] = "writing"
    /\ writer_active' = FALSE
    /\ rw_pc' = RWNotifyAll([rw_pc EXCEPT ![t] = "idle"])
    /\ UNCHANGED <<active_readers, waiting_writers>>
    /\ UNCHANGED notRW

\* cv.wait may return without a notification
RWSpuriousWake(t) ==
    /\ rw_pc[t] = "waiting"
    /\ rw_pc' = [rw_pc EXCEPT ![t] = "relock"]
    /\ UNCHANGED <<active_readers, waiting_writers, writer_active>>
    /\ UNCHANGED notRW

NextRW ==
    \E t \in RWThreads :
        \/ RWCall(t)
        \/ LockRead(t)
        \/ UnlockRead(t)
        \/ LockWrite(t)
        \/ LockWriteRetest(t)
        \/ UnlockWrite(t)
        \/ RWSpuriousWake(t)

InitRWRun ==
    /\ InitAging(DemoWorkers)
    /\ InitPrio
    /\ InitQueue(DemoCapacity)
    /\ InitRW
    /\ InitRR(DemoWorkers)
    /\ InitMP(DemoWorkers)
    /\ InitEO(0)
    /\ InitRC(TRUE)

\* Readers and writers that lock and unlock again and again, in any order.
SpecRW == InitRWRun /\ [][NextRW]_vars

\* the step in which thread t comes to hold the lock
RWAcquire(t) ==
    /\ rw_pc[t] \in {"enter", "relock"}
    /\ LockRead(t) \/ LockWrite(t) \/ LockWriteRetest(t)
    /\ rw_pc'[t] \in {"reading", "writing"}

\* Fair scheduling: a thread inside lock_read or lock_write gets to run its test,
\* a thread that can acquire again and again does acquire, and every holder
\* unlocks. Calling lock again is never owed, nor is a spurious wake-up.
FairRW ==
    /\ SpecRW
    /\ \A t \in RWThreads :
           /\ WF_vars(LockRead(t) \/ LockWrite(t) \/ LockWriteRetest(t))
           /\ SF_vars(RWAcquire(t))
           /\ WF_vars(UnlockRead(t) \/ UnlockWrite(t))

\* ================================================================ claims
\* identities of the tasks resident in task_heap
ResidentIds == {task_heap[i].id : i \in 1 .. Len(task_heap)}
\* identities of the tasks held by workers
HeldIds == {activeTask[w].id : w \in {x \in Workers : wpc[x] = "run"}}
\* every task enqueued so far
EnqueuedIds == 1 .. Len(executed)

\* C1: every enqueued task is at any time in at most one place (one slot of
\* task_heap, or one worker's activeTask), is never extracted again once its
\* payload has run, and its payload runs at most once.
C1_AtMostOnce ==
    /\ \A id \in EnqueuedIds : executed[id] <= 1
    /\ \A i, j \in 1 .. Len(task_heap) : task_heap[i].id = task_heap[j].id => i = j
    /\ \A w1, w2 \in Workers :
          (wpc[w1] = "run" /\ wpc[w2] = "run" /\ activeTask[w1].id = activeTask[w2].id)
              => w1 = w2
    /\ ResidentIds \cap HeldIds = {}
    /\ \A id \in EnqueuedIds : executed[id] = 1 => id \notin ResidentIds \cup HeldIds

\* C1 witness: two workers hold two different tasks at the same time.
C1_Witness ==
    \E w1, w2 \in Workers :
        /\ w1 # w2
        /\ wpc[w1] = "run" /\ wpc[w2] = "run"
        /\ activeTask[w1].id # activeTask[w2].id

\* the step in which worker w extracts
Extracts(w) == wpc[w] = "lock" /\ wpc'[w] = "run"

\* C3: at every extraction the extracted task's current_priority is at least the
\* current_priority of every task left in the heap by that extraction.
C3_ExtractsMax ==
    [][\A w \in Workers :
          Extracts(w) =>
              \A i \in 1 .. Len(task_heap') :
                  task_heap'[i].current_priority <= activeTask'[w].current_priority]_vars

\* C3 witness: a worker holds a task that aging lifted over a task of higher
\* original priority, which arrived before that aging pass and is still resident.
C3_Witness ==
    \E w \in Workers :
        /\ wpc[w] = "run"
        /\ activeTask[w].current_priority > activeTask[w].original_priority
        /\ \E i \in 1 .. Len(task_heap) :
              /\ task_heap[i].original_priority > activeTask[w].original_priority
              /\ task_heap[i].arrival_time
                    < activeTask[w].arrival_time + BoostIntervalSec * TicksPerSecond
              /\ task_heap[i].current_priority <= activeTask[w].current_priority

\* the step that is an aging pass
AgingPass == mpc = "sleep" /\ mpc' = "notify"

\* C7: no step lowers the current_priority of a task that stays resident, and
\* after an aging pass every task resident for at least one boost interval has
\* current_priority above its original_priority.
C7_AgingMonotone ==
    [][/\ \A i \in 1 .. Len(task_heap), j \in 1 .. Len(task_heap') :
              task_heap[i].id = task_heap'[j].id
                  => task_heap'[j].current_priority >= task_heap[i].current_priority
       /\ AgingPass =>
              \A j \in 1 .. Len(task_heap') :
                  WaitSeconds(task_heap'[j], now) >= BoostIntervalSec
                      => task_heap'[j].current_priority > task_heap'[j].original_priority]_vars

\* C7 witness: an aging pass has just raised a resident task.
C7_Witness ==
    /\ mpc = "notify"
    /\ \E i \in 1 .. Len(task_heap) :
          /\ WaitSeconds(task_heap[i], now) >= BoostIntervalSec
          /\ task_heap[i].current_priority > task_heap[i].original_priority

C9_NoWorkerBlockedForever ==
    ~ /\ dpc \in {"join_monitor", "join_workers"}
      /\ mpc = "done"
      /\ \E w \in Workers : wpc[w] = "waiting"

\* C2: with at least one worker, under fair scheduling every enqueued task is
\* eventually executed, exactly once.
C2_EventuallyExecuted ==
    \A id \in 1 .. MaxTasks :
        (threads >= 1 /\ id \in EnqueuedIds) ~> (id \in EnqueuedIds /\ executed[id] = 1)

\* C2 witness: a task was enqueued while every worker was blocked in cv.wait, and
\* it has been executed.
C2_Witness ==
    /\ threads >= 1
    /\ ~stop
    /\ \E id \in EnqueuedIds : executed[id] = 1
    /\ \E id \in EnqueuedIds : id \in ResidentIds
    /\ \A w \in Workers : wpc[w] = "waiting"

ResidencySec == BoostsNeeded * BoostIntervalSec
\* 60: a priority-20 task after that residency
AgedPrio == StarvedPrio + BoostsNeeded * BoostAmount

\* C4: with a single worker and the priorities submitted in the order 1, 1, 10,
\* 10, both priority-10 tasks are extracted before either priority-1 task.
C4_HighBeforeLow ==
    \A i \in 1 .. Len(p_order) :
        p_order[i] = LowPrio =>
            Cardinality({j \in 1 .. i - 1 : p_order[j] = HighPrio})
                = Cardinality({k \in 1 .. Len(PrioProgram) : PrioProgram[k] = HighPrio})

C6_StarvedJumpsAhead ==
    [][\A w \in Workers :
          (/\ Extracts(w)
           /\ \E i \in 1 .. Len(task_heap) :
                  /\ task_heap[i].original_priority = StarvedPrio
                  /\ task_heap[i].current_priority = AgedPrio
                  /\ WaitSeconds(task_heap[i], now) >= ResidencySec
           /\ \E j \in 1 .. Len(task_heap) : task_heap[j].original_priority = MediumPrio)
              => activeTask'[w].original_priority = StarvedPrio]_vars

\* ---- claims about error handling
\* C11: an enqueue issued after shutdown has begun is rejected and leaves the
\* heap unchanged: once stop is set no step adds a task to the heap.
C11_LateEnqueueRejected ==
    [][stop => ResidentIds' \subseteq ResidentIds]_vars

\* C12: a pool with zero workers that accepts tasks cannot be created.
C12_NoZeroWorkerPool == ~(threads = 0 /\ task_heap # <<>>)

\* C13: whenever a worker's payload ends, by returning or by failing, that worker
\* goes back to extracting, the other workers and the monitor are where they
\* were, and the heap holds the same tasks.
C13_FailureContained ==
    [][\A w \in Workers :
          (wpc[w] = "run" /\ wpc'[w] # "run") =>
              /\ wpc'[w] = "lock"
              /\ \A v \in Workers \ {w} : wpc'[v] = wpc[v]
              /\ mpc' = mpc
              /\ task_heap' = task_heap]_vars

\* ---- claims about concurrent submission and the heap
\* C14: with several threads enqueueing concurrently, every enqueued task is
\* resident or held by a worker until its payload has run, and has run once from
\* then on; when all MaxTasks tasks are enqueued, the heap is empty and no worker
\* is executing, every task has been executed exactly once.
C14_AllExecutedOnce ==
    /\ \A id \in EnqueuedIds :
           /\ executed[id] <= 1
           /\ executed[id] = 0 <=> id \in ResidentIds \cup HeldIds
    /\ (/\ next_id > MaxTasks
        /\ task_heap = <<>>
        /\ \A w \in Workers : wpc[w] # "run")
           => \A id \in 1 .. MaxTasks : executed[id] = 1

\* C14 witness: two submitters are both between their push and their notify_one
\* (each has enqueued one task) and both tasks have already been executed.
C14_Witness ==
    /\ \A s \in Submitters : spc[s] = "notify"
    /\ Cardinality(Submitters) >= 2
    /\ next_id > MaxTasks
    /\ \A id \in 1 .. MaxTasks : executed[id] = 1

\* the max-heap property of a vector of tasks on their sort key
IsMaxHeap(h) == \A i \in 2 .. Len(h) : ~TaskLess(h[i \div 2], h[i])

\* C15: after every enqueue, extraction and aging pass, task_heap is a max-heap
\* on current_priority.
C15_MaxHeap == IsMaxHeap(task_heap)

\* C15 witness: a heap of three or more tasks whose front was lifted by aging over
\* a resident task of higher original priority.
C15_Witness ==
    /\ Len(task_heap) >= 3
    /\ \E i \in 2 .. Len(task_heap) :
           task_heap[i].original_priority > task_heap[1].original_priority

\* C16: a worker that is executing a payload does not hold queue_mtx.
C16_LockFreeWhileRunning ==
    \A w \in Workers : wpc[w] = "run" => queue_mtx # w

\* C16 witness: while one worker executes, another worker has extracted and is
\* executing too, a submitter has just left enqueue's locked block and the
\* monitor has just finished an aging pass.
C16_Witness ==
    /\ \E w1, w2 \in Workers : w1 # w2 /\ wpc[w1] = "run" /\ wpc[w2] = "run"
    /\ \E s \in Submitters : spc[s] = "notify"
    /\ mpc = "notify"
    /\ queue_mtx = 0

\* ---- claims about the bounded queue
\* C17: the buffer never holds more than max_capacity elements (so a push that
\* finds it full has not added its value while it stays full).
C17_NeverOverCapacity == Len(buffer) <= max_capacity

\* C17 witness: the buffer is full, a producer is blocked on it, and a pop has
\* already made space once.
C17_Witness ==
    /\ Len(buffer) = max_capacity
    /\ \E t \in Producers : bq_pc[t] = "waiting"
    /\ \E t \in Consumers : bq_ret[t] = "true"

\* the step in which thread t returns from push or pop
QueueReturns(t) == bq_pc[t] = "check" /\ bq_pc'[t] # "check"

\* C18: a pop returns false only when the buffer is empty and the queue is shut
\* down; with an element in the buffer it returns true with the front element,
\* shut down or not.
C18_DrainsBeforeShutdown ==
    [][\A t \in Consumers :
          QueueReturns(t) =>
              /\ bq_ret'[t] = "false" <=> (buffer = <<>> /\ is_shutdown)
              /\ buffer # <<>> =>
                    /\ bq_ret'[t] = "true"
                    /\ output_val'[t] = Head(buffer)
                    /\ buffer' = Tail(buffer)]_vars

\* C18 witness: after shut_down a consumer popped what was left in the buffer and
\* then got false.
C18_Witness ==
    /\ is_shutdown
    /\ drained >= 2
    /\ buffer = <<>>
    /\ \E t \in Consumers : bq_ret[t] = "false" /\ bq_pc[t] = "idle"

\* C19: a push that returns with the queue shut down returns false; a push that
\* returns false leaves the buffer unchanged; a push that returns true has
\* appended its value.
C19_PushRejectedOnShutdown ==
    [][\A t \in Producers :
          QueueReturns(t) =>
              /\ is_shutdown => bq_ret'[t] = "false"
              /\ bq_ret'[t] = "false" => buffer' = buffer
              /\ bq_ret'[t] = "true" => buffer' = Append(buffer, bq_val[t])]_vars

\* C19 witness: a push has returned false on a full buffer that does not hold
\* its value, while another push has succeeded.
C19_Witness ==
    /\ Len(buffer) = max_capacity
    /\ \E t \in Producers :
           /\ bq_ret[t] = "false" /\ bq_pc[t] = "idle"
           /\ \A i \in 1 .. Len(buffer) : buffer[i] # bq_val[t]
    /\ \E t \in Producers : bq_ret[t] = "true"

\* C20: once the queue is shut down, no thread is blocked in wait with every
\* other thread blocked too or gone, that is, with nobody left to notify it.
C20_NoThreadBlockedForever ==
    ~ /\ is_shutdown
      /\ \E t \in QueueThreads :
             /\ bq_pc[t] = "waiting"
             /\ \A u \in QueueThreads \ {t} : bq_pc[u] \in {"done", "waiting"}

\* ---- claims about the reader/writer lock
\* C21: a writer is never in the critical section together with a reader or with
\* another writer, and the lock's counters say who is inside.
C21_WriterExclusive ==
    /\ writer_active => active_readers = 0
    /\ Cardinality({t \in Writers : rw_pc[t] = "writing"}) <= 1
    /\ (\E t \in Writers : rw_pc[t] = "writing") => \A r \in Readers : rw_pc[r] # "reading"
    /\ active_readers = Cardinality({r \in Readers : rw_pc[r] = "reading"})
    /\ writer_active <=> \E t \in Writers : rw_pc[t] = "writing"

\* C21 witness: a writer is inside while the other writer and a reader are
\* blocked in their lock calls.
C21_Witness ==
    /\ \E t \in Writers : rw_pc[t] = "writing"
    /\ \E t \in Writers : rw_pc[t] = "waiting"
    /\ \E r \in Readers : rw_pc[r] = "waiting"

\* C22: a reader completes lock_read only in a step that starts with no writer
\* active and no writer waiting: every writer that began to wait before is through
\* its critical section by then.
C22_WriterPreference ==
    [][\A r \in Readers :
          (rw_pc[r] # "reading" /\ rw_pc'[r] = "reading") =>
              /\ ~writer_active
              /\ waiting_writers = 0
              /\ \A t \in Writers : rw_pc[t] \notin {"waiting", "relock", "writing"}]_vars

\* C22 witness: a reader is held back by a waiting writer alone: no writer is
\* active and another reader is still reading.
C22_Witness ==
    /\ ~writer_active
    /\ waiting_writers > 0
    /\ \E r \in Readers : rw_pc[r] = "waiting"
    /\ \E r \in Readers : rw_pc[r] = "reading"

\* C23: a writer that has called lock_write eventually holds the write lock.
C23_WriterEventuallyAcquires ==
    \A t \in Writers :
        (rw_pc[t] \in {"enter", "waiting", "relock"}) ~> (rw_pc[t] = "writing")

\* C23 witness: a writer waits while one reader reads and the other reader, who
\* arrived later, is held back.
C23_Witness ==
    /\ \E t \in Writers : rw_pc[t] = "waiting"
    /\ active_readers > 0
    /\ \E r \in Readers : rw_pc[r] \in {"enter", "waiting", "relock"}
    /\ waiting_writers = 1

\* C24: every thread that has called lock_read or lock_write eventually holds
\* the lock.
C24_StarvationFree ==
    \A t \in RWThreads :
        (rw_pc[t] \in {"enter", "waiting", "relock"}) ~> (rw_pc[t] \in {"reading", "writing"})


\* ============================================ request-response ThreadPool
\* the bound function of an enqueue call: multiply(10, i)
multiply(a, b) == a * b

\* what the packaged_task of main's i-th enqueue call computes
TaskResult(i) == multiply(10, i)

\* workerLoop: `while (!stop && tasks.empty())`
RRWaitPred(s, q) == ~s /\ q = <<>>

\* workerLoop: `if (stop && tasks.empty()) return;`
RRExitPred(s, q) == s /\ q = <<>>

\* a worker that takes the task inserted last
FrontPop_Back(q) == [task |-> q[Len(q)], queue |-> SubSeq(q, 1, Len(q) - 1)]

\* workerLoop: task = std::move(tasks.front()); tasks.pop();
FrontPop(q) == [task |-> Head(q), queue |-> Tail(q)]

\* (*task)(): the packaged_task stores f()'s value in the shared state and makes it ready
Invoke(i) == [valid |-> TRUE, ready |-> TRUE, value |-> TaskResult(i)]

\* enqueue up to the closing brace of the locked block: the packaged_task is made,
\* its future taken, and the wrapper that captures it emplaced under queue_mtx
RREnqueue ==
    /\ rr_main = "enqueue"
    /\ rr_i <= MaxTasks
    /\ rr_mtx = 0
    /\ rr_future' = [rr_future EXCEPT ![rr_i] = [valid |-> TRUE, ready |-> FALSE, value |-> 0]]
    /\ rr_tasks' = Append(rr_tasks, rr_i)
    /\ rr_main' = "notify"
    /\ UNCHANGED <<rr_threads, rr_stop, rr_mtx, rr_wpc, rr_task, rr_runs, rr_i, rr_j, rr_got,
                   rr_join, rr_queued_at_stop>>
    /\ UNCHANGED notRR

\* enqueue: cv.notify_one(); return res; main goes on to its next statement
RREnqueueNotify ==
    /\ rr_main = "notify"
    /\ rr_wpc' \in NotifyOne(rr_wpc)
    /\ rr_i' = rr_i + 1
    /\ rr_main' = IF rr_i = MaxTasks THEN "get" ELSE "enqueue"
    /\ UNCHANGED <<rr_threads, rr_tasks, rr_stop, rr_mtx, rr_task, rr_future, rr_runs, rr_j,
                   rr_got, rr_join, rr_queued_at_stop>>
    /\ UNCHANGED notRR

\* future::get(): blocks until the shared state is ready, then returns its value
RRGet ==
    /\ rr_main = "get"
    /\ rr_j <= MaxTasks
    /\ rr_future[rr_j].ready
    /\ rr_got' = Append(rr_got, rr_future[rr_j].value)
    /\ rr_j' = rr_j + 1
    /\ UNCHANGED <<rr_threads, rr_tasks, rr_stop, rr_mtx, rr_wpc, rr_task, rr_future, rr_runs,
                   rr_main, rr_i, rr_join, rr_queued_at_stop>>
    /\ UNCHANGED notRR

\* workerLoop: the lock is taken and the while condition holds; cv.wait is next
RRWorkerTestWait(w) ==
    /\ rr_wpc[w] = "lock"
    /\ rr_mtx = 0
    /\ RRWaitPred(rr_stop, rr_tasks)
    /\ rr_wpc' = [rr_wpc EXCEPT ![w] = "wait"]
    /\ rr_mtx' = w
    /\ UNCHANGED <<rr_threads, rr_tasks, rr_stop, rr_task, rr_future, rr_runs, rr_main, rr_i,
                   rr_j, rr_got, rr_join, rr_queued_at_stop>>
    /\ UNCHANGED notRR

\* cv.wait(lock): the mutex is released and the worker blocks
RRWorkerWait(w) ==
    /\ rr_wpc[w] = "wait"
    /\ rr_wpc' = [rr_wpc EXCEPT ![w] = "waiting"]
    /\ rr_mtx' = 0
    /\ UNCHANGED <<rr_threads, rr_tasks, rr_stop, rr_task, rr_future, rr_runs, rr_main, rr_i,
                   rr_j, rr_got, rr_join, rr_queued_at_stop>>
    /\ UNCHANGED notRR

\* cv.wait may return without a notification
RRWorkerSpuriousWake(w) ==
    /\ rr_wpc[w] = "waiting"
    /\ rr_wpc' = [rr_wpc EXCEPT ![w] = "lock"]
    /\ UNCHANGED <<rr_threads, rr_tasks, rr_stop, rr_mtx, rr_task, rr_future, rr_runs, rr_main,
                   rr_i, rr_j, rr_got, rr_join, rr_queued_at_stop>>
    /\ UNCHANGED notRR

\* `if (stop && tasks.empty()) return;`
RRWorkerExit(w) ==
    /\ rr_wpc[w] = "lock"
    /\ rr_mtx = 0
    /\ RRExitPred(rr_stop, rr_tasks)
    /\ rr_wpc' = [rr_wpc EXCEPT ![w] = "done"]
    /\ UNCHANGED <<rr_threads, rr_tasks, rr_stop, rr_mtx, rr_task, rr_future, rr_runs, rr_main,
                   rr_i, rr_j, rr_got, rr_join, rr_queued_at_stop>>
    /\ UNCHANGED notRR

\* task = move(tasks.front()); tasks.pop(); the lock is released at the brace
RRWorkerExtract(w) ==
    /\ rr_wpc[w] = "lock"
    /\ rr_mtx = 0
    /\ rr_tasks # <<>>
    /\ rr_task' = [rr_task EXCEPT ![w] = FrontPop(rr_tasks).task]
    /\ rr_tasks' = FrontPop(rr_tasks).queue
    /\ rr_wpc' = [rr_wpc EXCEPT ![w] = "run"]
    /\ UNCHANGED <<rr_threads, rr_stop, rr_mtx, rr_future, rr_runs, rr_main, rr_i, rr_j,
                   rr_got, rr_join, rr_queued_at_stop>>
    /\ UNCHANGED notRR

\* `if (task) task();`: the wrapper calls its packaged_task; then the next
\* iteration's fresh Task
RRWorkerRun(w) ==
    /\ rr_wpc[w] = "run"
    /\ rr_future' = [rr_future EXCEPT ![rr_task[w]] = Invoke(rr_task[w])]
    /\ rr_runs' = [rr_runs EXCEPT ![rr_task[w]] = @ + 1]
    /\ rr_task' = [rr_task EXCEPT ![w] = 0]
    /\ rr_wpc' = [rr_wpc EXCEPT ![w] = "lock"]
    /\ UNCHANGED <<rr_threads, rr_tasks, rr_stop, rr_mtx, rr_main, rr_i, rr_j, rr_got,
                   rr_join, rr_queued_at_stop>>
    /\ UNCHANGED notRR

\* main returns, with or without having called get on every future;
\* ~ThreadPool: stop = true (no lock held)
RRDtorSetStop ==
    /\ rr_main = "get"
    /\ rr_stop' = TRUE
    /\ rr_queued_at_stop' = {rr_tasks[k] : k \in 1 .. Len(rr_tasks)}
    /\ rr_main' = "notify_all"
    /\ UNCHANGED <<rr_threads, rr_tasks, rr_mtx, rr_wpc, rr_task, rr_future, rr_runs, rr_i,
                   rr_j, rr_got, rr_join>>
    /\ UNCHANGED notRR

\* ~ThreadPool: cv.notify_all()
RRDtorNotifyAll ==
    /\ rr_main = "notify_all"
    /\ rr_wpc' = NotifyAll(rr_wpc)
    /\ rr_main' = "join"
    /\ UNCHANGED <<rr_threads, rr_tasks, rr_stop, rr_mtx, rr_task, rr_future, rr_runs, rr_i,
                   rr_j, rr_got, rr_join, rr_queued_at_stop>>
    /\ UNCHANGED notRR

\* ~ThreadPool: `if (worker.joinable()) worker.join();` returns once the worker has
\* returned
RRDtorJoin ==
    /\ rr_main = "join"
    /\ rr_join <= rr_threads
    /\ rr_wpc[rr_join] = "done"
    /\ rr_join' = rr_join + 1
    /\ UNCHANGED <<rr_threads, rr_tasks, rr_stop, rr_mtx, rr_wpc, rr_task, rr_future, rr_runs,
                   rr_main, rr_i, rr_j, rr_got, rr_queued_at_stop>>
    /\ UNCHANGED notRR

\* ~ThreadPool: the for loop over workers has ended; the destructor returns
RRDtorReturn ==
    /\ rr_main = "join"
    /\ rr_join > rr_threads
    /\ rr_main' = "finished"
    /\ UNCHANGED <<rr_threads, rr_tasks, rr_stop, rr_mtx, rr_wpc, rr_task, rr_future, rr_runs,
                   rr_i, rr_j, rr_got, rr_join, rr_queued_at_stop>>
    /\ UNCHANGED notRR

RRWorkerStep(w) ==
    \/ RRWorkerTestWait(w)
    \/ RRWorkerWait(w)
    \/ RRWorkerExit(w)
    \/ RRWorkerExtract(w)
    \/ RRWorkerRun(w)

RRMainStep ==
    \/ RREnqueue
    \/ RREnqueueNotify
    \/ RRGet
    \/ RRDtorSetStop
    \/ RRDtorNotifyAll
    \/ RRDtorJoin
    \/ RRDtorReturn

NextRR ==
    \/ RRMainStep
    \/ \E w \in 1 .. rr_threads :
        \/ RRWorkerStep(w)
        \/ RRWorkerSpuriousWake(w)

InitRRRun ==
    /\ InitAging(DemoWorkers)
    /\ InitPrio
    /\ InitQueue(DemoCapacity)
    /\ InitRW
    /\ InitMP(DemoWorkers)
    /\ InitEO(0)
    /\ InitRC(TRUE)
    /\ \E num_threads \in 0 .. NumWorkers : InitRR(num_threads)

\* A request-response pool of any number of threads; main enqueues, gets some of
\* the futures, and lets the pool be destroyed.
SpecRR == InitRRRun /\ [][NextRR]_vars

\* The scheduler lets every started worker and main take their steps.
FairRR ==
    /\ SpecRR
    /\ WF_vars(RRMainStep)
    /\ \A w \in 1 .. NumWorkers : WF_vars(rr_threads >= w /\ RRWorkerStep(w))

\* ---- C25
\* C25: destruction completes every task that is already in the queue: once the
\* destructor has returned, the queue is empty, every task that was queued when
\* destruction began has been executed, and every worker has been joined.
C25_DestructionDrains ==
    rr_main = "finished" =>
        /\ rr_tasks = <<>>
        /\ \A i \in rr_queued_at_stop : rr_runs[i] = 1
        /\ \A w \in 1 .. rr_threads : rr_wpc[w] = "done"

\* ---- C26
\* C26: every future returned by enqueue eventually becomes ready.
C26_FutureBecomesReady ==
    \A i \in 1 .. MaxTasks : rr_future[i].valid ~> rr_future[i].ready

\* ================================ message-passing ThreadPool, ResultQueue
\* IsPrimeCalculator::operator(): trial division up to the square root
IsPrime(n) == n > 1 /\ \A i \in 2 .. n : i * i <= n => n % i # 0

\* what the functor with this n pushes: the pair {prime, n}
PrimeResult(n) == [first |-> IsPrime(n), second |-> n]

\* workerLoop: `while (!stop && tasks.empty())`
MPWaitPred(s, q) == ~s /\ q = <<>>

\* workerLoop: `if (stop && tasks.empty()) return;`
MPExitPred(s, q) == s /\ q = <<>>

\* ResultQueue::pop: the predicate of cv.wait, negated
PopMustBlock(q) == q = <<>>

\* pool.enqueue(taskObj) up to the closing brace of the locked block
MPEnqueue ==
    /\ mp_main = "enqueue"
    /\ mp_i <= MaxTasks
    /\ mp_mtx = 0
    /\ mp_tasks' = Append(mp_tasks, mp_i)
    /\ mp_main' = "notify"
    /\ UNCHANGED <<mp_threads, mp_stop, mp_mtx, mp_wpc, mp_task, mp_queue, mp_rmtx, mp_i,
                   mp_received, mp_pushed, mp_join>>
    /\ UNCHANGED notMP

\* enqueue: cv.notify_one(); main's first for loop goes on, or its second begins
MPEnqueueNotify ==
    /\ mp_main = "notify"
    /\ mp_wpc' \in NotifyOne(mp_wpc)
    /\ mp_i' = IF mp_i = MaxTasks THEN 1 ELSE mp_i + 1
    /\ mp_main' = IF mp_i = MaxTasks THEN "pop" ELSE "enqueue"
    /\ UNCHANGED <<mp_threads, mp_tasks, mp_stop, mp_mtx, mp_task, mp_queue, mp_rmtx,
                   mp_received, mp_pushed, mp_join>>
    /\ UNCHANGED notMP

\* results.pop(): the lock is taken and the queue is empty; cv.wait is next
MPPopTest ==
    /\ mp_main = "pop"
    /\ mp_i <= MaxTasks
    /\ PopMustBlock(mp_queue)
    /\ mp_rmtx' = TRUE
    /\ mp_main' = "wait"
    /\ UNCHANGED <<mp_threads, mp_tasks, mp_stop, mp_mtx, mp_wpc, mp_task, mp_queue, mp_i,
                   mp_received, mp_pushed, mp_join>>
    /\ UNCHANGED notMP

\* pop: cv.wait releases mtx and main blocks
MPPopWait ==
    /\ mp_main = "wait"
    /\ mp_rmtx' = FALSE
    /\ mp_main' = "waiting"
    /\ UNCHANGED <<mp_threads, mp_tasks, mp_stop, mp_mtx, mp_wpc, mp_task, mp_queue, mp_i,
                   mp_received, mp_pushed, mp_join>>
    /\ UNCHANGED notMP

\* pop: cv.wait may return without a notification; the predicate is tested again
MPPopSpuriousWake ==
    /\ mp_main = "waiting"
    /\ mp_main' = "pop"
    /\ UNCHANGED <<mp_threads, mp_tasks, mp_stop, mp_mtx, mp_wpc, mp_task, mp_queue, mp_rmtx,
                   mp_i, mp_received, mp_pushed, mp_join>>
    /\ UNCHANGED notMP

\* pop: the predicate holds; val = move(queue.front()); queue.pop(); return val
MPPopReturn ==
    /\ mp_main = "pop"
    /\ mp_i <= MaxTasks
    /\ ~PopMustBlock(mp_queue)
    /\ mp_received' = Append(mp_received, Head(mp_queue))
    /\ mp_queue' = Tail(mp_queue)
    /\ mp_i' = mp_i + 1
    /\ UNCHANGED <<mp_threads, mp_tasks, mp_stop, mp_mtx, mp_wpc, mp_task, mp_rmtx, mp_main,
                   mp_pushed, mp_join>>
    /\ UNCHANGED notMP

\* workerLoop: the lock is taken and the while condition holds; cv.wait is next
MPWorkerTestWait(w) ==
    /\ mp_wpc[w] = "lock"
    /\ mp_mtx = 0
    /\ MPWaitPred(mp_stop, mp_tasks)
    /\ mp_wpc' = [mp_wpc EXCEPT ![w] = "wait"]
    /\ mp_mtx' = w
    /\ UNCHANGED <<mp_threads, mp_tasks, mp_stop, mp_task, mp_queue, mp_rmtx, mp_main, mp_i,
                   mp_received, mp_pushed, mp_join>>
    /\ UNCHANGED notMP

\* cv.wait(lock): the mutex is released and the worker blocks
MPWorkerWait(w) ==
    /\ mp_wpc[w] = "wait"
    /\ mp_wpc' = [mp_wpc EXCEPT ![w] = "waiting"]
    /\ mp_mtx' = 0
    /\ UNCHANGED <<mp_threads, mp_tasks, mp_stop, mp_task, mp_queue, mp_rmtx, mp_main, mp_i,
                   mp_received, mp_pushed, mp_join>>
    /\ UNCHANGED notMP

\* cv.wait may return without a notification
MPWorkerSpuriousWake(w) ==
    /\ mp_wpc[w] = "waiting"
    /\ mp_wpc' = [mp_wpc EXCEPT ![w] = "lock"]
    /\ UNCHANGED <<mp_threads, mp_tasks, mp_stop, mp_mtx, mp_task, mp_queue, mp_rmtx, mp_main,
                   mp_i, mp_received, mp_pushed, mp_join>>
    /\ UNCHANGED notMP

\* `if (stop && tasks.empty()) return;`
MPWorkerExit(w) ==
    /\ mp_wpc[w] = "lock"
    /\ mp_mtx = 0
    /\ MPExitPred(mp_stop, mp_tasks)
    /\ mp_wpc' = [mp_wpc EXCEPT ![w] = "done"]
    /\ UNCHANGED <<mp_threads, mp_tasks, mp_stop, mp_mtx, mp_task, mp_queue, mp_rmtx, mp_main,
                   mp_i, mp_received, mp_pushed, mp_join>>
    /\ UNCHANGED notMP

\* task = move(tasks.front()); tasks.pop(); the lock is released at the brace
MPWorkerExtract(w) ==
    /\ mp_wpc[w] = "lock"
    /\ mp_mtx = 0
    /\ mp_tasks # <<>>
    /\ mp_task' = [mp_task EXCEPT ![w] = FrontPop(mp_tasks).task]
    /\ mp_tasks' = FrontPop(mp_tasks).queue
    /\ mp_wpc' = [mp_wpc EXCEPT ![w] = "run"]
    /\ UNCHANGED <<mp_threads, mp_stop, mp_mtx, mp_queue, mp_rmtx, mp_main, mp_i, mp_received,
                   mp_pushed, mp_join>>
    /\ UNCHANGED notMP

\* task(): the functor computes and calls outputQueue->push, whose locked block
\* appends the pair
MPWorkerRun(w) ==
    /\ mp_wpc[w] = "run"
    /\ ~mp_rmtx
    /\ mp_queue' = Append(mp_queue, PrimeResult(mp_task[w]))
    /\ mp_pushed' = [mp_pushed EXCEPT ![mp_task[w]] = @ + 1]
    /\ mp_wpc' = [mp_wpc EXCEPT ![w] = "notify"]
    /\ UNCHANGED <<mp_threads, mp_tasks, mp_stop, mp_mtx, mp_task, mp_rmtx, mp_main, mp_i,
                   mp_received, mp_join>>
    /\ UNCHANGED notMP

\* ResultQueue::push: cv.notify_one(); the functor returns and the worker's next
\* iteration begins with a fresh Task
MPWorkerNotify(w) ==
    /\ mp_wpc[w] = "notify"
    /\ mp_main' = IF mp_main = "waiting" THEN "pop" ELSE mp_main
    /\ mp_task' = [mp_task EXCEPT ![w] = 0]
    /\ mp_wpc' = [mp_wpc EXCEPT ![w] = "lock"]
    /\ UNCHANGED <<mp_threads, mp_tasks, mp_stop, mp_mtx, mp_queue, mp_rmtx, mp_i, mp_received,
                   mp_pushed, mp_join>>
    /\ UNCHANGED notMP

\* main's second loop has ended and main returns; ~ThreadPool: stop = true
MPDtorSetStop ==
    /\ mp_main = "pop"
    /\ mp_i > MaxTasks
    /\ mp_stop' = TRUE
    /\ mp_main' = "notify_all"
    /\ UNCHANGED <<mp_threads, mp_tasks, mp_mtx, mp_wpc, mp_task, mp_queue, mp_rmtx, mp_i,
                   mp_received, mp_pushed, mp_join>>
    /\ UNCHANGED notMP

\* ~ThreadPool: cv.notify_all()
MPDtorNotifyAll ==
    /\ mp_main = "notify_all"
    /\ mp_wpc' = NotifyAll(mp_wpc)
    /\ mp_main' = "join"
    /\ UNCHANGED <<mp_threads, mp_tasks, mp_stop, mp_mtx, mp_task, mp_queue, mp_rmtx, mp_i,
                   mp_received, mp_pushed, mp_join>>
    /\ UNCHANGED notMP

\* ~ThreadPool: `if (worker.joinable()) worker.join();`
MPDtorJoin ==
    /\ mp_main = "join"
    /\ mp_join <= mp_threads
    /\ mp_wpc[mp_join] = "done"
    /\ mp_join' = mp_join + 1
    /\ UNCHANGED <<mp_threads, mp_tasks, mp_stop, mp_mtx, mp_wpc, mp_task, mp_queue, mp_rmtx,
                   mp_main, mp_i, mp_received, mp_pushed>>
    /\ UNCHANGED notMP

\* ~ThreadPool: the for loop over workers has ended; main has terminated
MPDtorReturn ==
    /\ mp_main = "join"
    /\ mp_join > mp_threads
    /\ mp_main' = "finished"
    /\ UNCHANGED <<mp_threads, mp_tasks, mp_stop, mp_mtx, mp_wpc, mp_task, mp_queue, mp_rmtx,
                   mp_i, mp_received, mp_pushed, mp_join>>
    /\ UNCHANGED notMP

MPWorkerStep(w) ==
    \/ MPWorkerTestWait(w)
    \/ MPWorkerWait(w)
    \/ MPWorkerExit(w)
    \/ MPWorkerExtract(w)
    \/ MPWorkerRun(w)
    \/ MPWorkerNotify(w)

MPMainStep ==
    \/ MPEnqueue
    \/ MPEnqueueNotify
    \/ MPPopTest
    \/ MPPopWait
    \/ MPPopReturn
    \/ MPDtorSetStop
    \/ MPDtorNotifyAll
    \/ MPDtorJoin
    \/ MPDtorReturn

NextMP ==
    \/ MPMainStep
    \/ MPPopSpuriousWake
    \/ \E w \in 1 .. mp_threads :
        \/ MPWorkerStep(w)
        \/ MPWorkerSpuriousWake(w)

InitMPRun ==
    /\ InitAging(DemoWorkers)
    /\ InitPrio
    /\ InitQueue(DemoCapacity)
    /\ InitRW
    /\ InitRR(DemoWorkers)
    /\ InitEO(0)
    /\ InitRC(TRUE)
    /\ \E core_count \in 0 .. NumWorkers : InitMP(core_count)

\* main of the message-passing program with any core_count.
SpecMP == InitMPRun /\ [][NextMP]_vars

\* The scheduler lets every started worker and main take their steps; a thread
\* that finds a mutex free again and again does get it.
FairMP ==
    /\ SpecMP
    /\ SF_vars(MPMainStep)
    /\ \A w \in 1 .. NumWorkers : SF_vars(mp_threads >= w /\ MPWorkerStep(w))

\* ---- C27
\* C27: a main thread that submits N tasks and then calls pop N times terminates,
\* having received all N results.
C27_MainReceivesAll == <>(Len(mp_received) = MaxTasks /\ mp_main = "finished")

C29_AgingIdempotent ==
    [][AgingPass =>
          /\ \A i \in 1 .. Len(task_heap') : AgeTask(task_heap'[i], now) = task_heap'[i]
          /\ ApplyAging(task_heap', now) = task_heap']_vars

\* C29 witness: an aging pass has just raised two resident tasks or more.
C29_Witness ==
    /\ mpc = "notify"
    /\ \E i \in 1 .. Len(task_heap), j \in 1 .. Len(task_heap) :
          /\ i # j
          /\ task_heap[i].current_priority > task_heap[i].original_priority
          /\ task_heap[j].current_priority > task_heap[j].original_priority

\* ---- C30
\* C30: an aging pass only relabels: the resident tasks stay the same tasks with
\* the same original_priority, arrival_time and payload, none is removed or
\* invoked, and a task a worker has extracted keeps its current_priority.
C30_AgingFrame ==
    [][AgingPass =>
          /\ Len(task_heap') = Len(task_heap)
          /\ {[task_heap[i] EXCEPT !.current_priority = 0] : i \in 1 .. Len(task_heap)}
                 = {[task_heap'[j] EXCEPT !.current_priority = 0] : j \in 1 .. Len(task_heap')}
          /\ executed' = executed
          /\ activeTask' = activeTask
          /\ wpc' = wpc]_vars

\* C30 witness: an aging pass has just raised a resident task while a worker was
\* running the task it had extracted.
C30_Witness ==
    /\ mpc = "notify"
    /\ \E w \in Workers : wpc[w] = "run" /\ executed[activeTask[w].id] = 0
    /\ \E i \in 1 .. Len(task_heap) :
          task_heap[i].current_priority > task_heap[i].original_priority

C32_StopWrittenUnderLock ==
    [][stop' # stop => queue_mtx = 0 /\ \A w \in Workers : wpc[w] # "wait"]_vars

\* ---- C33
\* C33: enqueue inserts exactly one new task, with current_priority =
\* original_priority and arrival_time = the time of the call, leaves every other
\* resident task as it was, and then wakes one waiting worker (if there is one).
C33_EnqueueEffect ==
    [][\A s \in Submitters :
          /\ (spc[s] = "idle" /\ spc'[s] = "notify") =>
                /\ Len(task_heap') = Len(task_heap) + 1
                /\ \E j \in 1 .. Len(task_heap') :
                      /\ task_heap'[j].id = next_id
                      /\ task_heap'[j].current_priority = task_heap'[j].original_priority
                      /\ task_heap'[j].arrival_time = now
                      /\ {task_heap'[k] : k \in (1 .. Len(task_heap')) \ {j}}
                             = {task_heap[k] : k \in 1 .. Len(task_heap)}
                /\ wpc' = wpc
          /\ (spc[s] = "notify" /\ spc'[s] = "idle") =>
                /\ task_heap' = task_heap
                /\ LET waiting == {w \in Workers : wpc[w] = "waiting"}
                       woken == {w \in Workers : wpc'[w] # wpc[w]}
                   IN /\ woken \subseteq waiting
                      /\ \A w \in woken : wpc'[w] = "lock"
                      /\ Cardinality(woken) = IF waiting = {} THEN 0 ELSE 1]_vars

\* C33 witness: an enqueue into a heap that already held a task has pushed a
\* second one while a worker was waiting, and is about to notify.
C33_Witness ==
    /\ \E s \in Submitters : spc[s] = "notify"
    /\ Len(task_heap) >= 2
    /\ \E w \in Workers : wpc[w] = "waiting"

\* ---- C34
\* C34: the step after every aging pass, whether or not a priority changed, is a
\* notify_all made with the lock released that wakes every waiting worker; and a
\* worker that tests its predicate with the heap empty and stop false goes back
\* to waiting and extracts nothing.
C34_WakeAllAfterAging ==
    [][/\ (mpc = "notify" /\ mpc' # mpc) =>
              /\ \A w \in Workers : wpc[w] = "waiting" => wpc'[w] = "lock"
              /\ task_heap' = task_heap
       /\ AgingPass => mpc' = "notify" /\ queue_mtx' = 0
       /\ \A w \in Workers :
              (wpc[w] = "lock" /\ wpc'[w] # wpc[w] /\ task_heap = <<>> /\ ~stop) =>
                  wpc'[w] = "wait" /\ task_heap' = task_heap /\ activeTask' = activeTask]_vars

\* C34 witness: an aging pass over an empty heap has changed nothing and the
\* monitor is about to notify two workers that are waiting.
C34_Witness ==
    /\ mpc = "notify"
    /\ task_heap = <<>>
    /\ ~stop
    /\ Cardinality({w \in Workers : wpc[w] = "waiting"}) >= 2

C36_SameSecondOrderKept ==
    \A i \in 1 .. Len(task_heap), j \in 1 .. Len(task_heap) :
        (/\ task_heap[i].arrival_time \div TicksPerSecond
                = task_heap[j].arrival_time \div TicksPerSecond
         /\ task_heap[i].original_priority < task_heap[j].original_priority)
            => task_heap[i].current_priority < task_heap[j].current_priority

\* C36 amended: two resident tasks with the same arrival_time and original
\* priorities p < q always have current priorities in that order.
C36_SameArrivalOrderKept ==
    \A i \in 1 .. Len(task_heap), j \in 1 .. Len(task_heap) :
        (/\ task_heap[i].arrival_time = task_heap[j].arrival_time
         /\ task_heap[i].original_priority < task_heap[j].original_priority)
            => task_heap[i].current_priority < task_heap[j].current_priority

\* C36 witness: two resident tasks that arrived together with different
\* priorities have both been boosted by an aging pass.
C36_Witness ==
    \E i \in 1 .. Len(task_heap), j \in 1 .. Len(task_heap) :
        /\ task_heap[i].arrival_time = task_heap[j].arrival_time
        /\ task_heap[i].original_priority < task_heap[j].original_priority
        /\ task_heap[i].current_priority > task_heap[i].original_priority
        /\ task_heap[j].current_priority > task_heap[j].original_priority

\* ---- C37
\* C37: the bounded queue is FIFO and loses or duplicates nothing: the values of
\* the successful pops, in pop order, followed by what the buffer holds, are the
\* values of the successful pushes in push order; so the pops are a prefix of the
\* pushes.
C37_FifoNothingLost ==
    /\ popped \o buffer = pushed
    /\ \A a, b \in 1 .. Len(pushed) : a # b => pushed[a] # pushed[b]

\* C37 witness: two producers' pushes went in in an order other than that of
\* their calls, two values have been popped, and the queue has been shut down.
C37_Witness ==
    /\ Len(popped) >= 2
    /\ \E a, b \in 1 .. Len(pushed) : a < b /\ pushed[a] > pushed[b]
    /\ is_shutdown

\* ---- C38
\* C38: the k-th dequeue of the FIFO pool takes the task of the k-th insertion:
\* a worker dequeues only from a non-empty queue, takes its front, which is the
\* oldest task not yet dequeued, and no other worker gets that task.
C38_DequeuedInInsertionOrder ==
    [][\A w \in 1 .. rr_threads :
          (rr_wpc[w] = "lock" /\ rr_wpc'[w] = "run") =>
              /\ rr_tasks # <<>>
              /\ rr_task'[w] = Head(rr_tasks)
              /\ rr_tasks' = Tail(rr_tasks)
              /\ rr_task'[w] =
                     Cardinality({i \in 1 .. MaxTasks : rr_future[i].valid})
                         - Len(rr_tasks) + 1
              /\ \A x \in 1 .. rr_threads : x # w => rr_task'[x] # rr_task'[w]]_vars

\* C38 witness: two workers are running the first and the second task, each
\* dequeued by one of them.
C38_Witness ==
    /\ rr_threads >= 2
    /\ \A w \in 1 .. 2 : rr_wpc[w] = "run"
    /\ {rr_task[w] : w \in 1 .. 2} = {1, 2}

\* ------------------------------------------------------- EvenOddPrinter
\* The range of int at the width the model keeps.
IntMax == 2 ^ (IntBits - 1) - 1
IntMin == 0 - 2 ^ (IntBits - 1)

\* The history of prints is cut off one full round after the range of int.
MaxPrinted == IntMax + 2

\* count % 2 == 0; the remainder of a negative odd int is -1 in the source and 1
\* here, and both differ from 0.
IsEven(c) == c % 2 = 0

\* The condition of the inner while loop: printOdd waits while it is Even's
\* turn, printEven while it is Odd's turn, and neither waits past max_count.
MustWait(t, c, m) ==
    IF t = OddThread
    THEN IsEven(c) /\ c <= m
    ELSE ~IsEven(c) /\ c <= m

\* count++ on an int: the next value, and signed overflow at INT_MAX is
\* undefined behaviour, after which count may hold any int.
Increment(c) == IF c < IntMax THEN {c + 1} ELSE IntMin .. IntMax

\* cv.notify_all(): every thread blocked in cv.wait goes on to retake the mutex
EONotifyAll(pc) ==
    [t \in EOThreads |-> IF pc[t] = "waiting" THEN "relock" ELSE pc[t]]

\* unique_lock lock(mtx), or the return of cv.wait with the mutex retaken;
\* the loop condition holds: cv.wait(lock) releases the mutex and blocks
EOWait(t) ==
    /\ eo_pc[t] \in {"lock", "relock"}
    /\ MustWait(t, count, max_count)
    /\ eo_pc' = [eo_pc EXCEPT ![t] = "waiting"]
    /\ UNCHANGED <<count, max_count, printed, overflowed>>
    /\ UNCHANGED notEO

\* a wake-up of cv.wait that no notify caused
EOSpuriousWake(t) ==
    /\ eo_pc[t] = "waiting"
    /\ eo_pc' = [eo_pc EXCEPT ![t] = "relock"]
    /\ UNCHANGED <<count, max_count, printed, overflowed>>
    /\ UNCHANGED notEO

\* if (count > max_count) { cv.notify_all(); break; }  -- the thread returns
EOBreak(t) ==
    /\ eo_pc[t] \in {"lock", "relock"}
    /\ ~MustWait(t, count, max_count)
    /\ count > max_count
    /\ eo_pc' = [EONotifyAll(eo_pc) EXCEPT ![t] = "done"]
    /\ UNCHANGED <<count, max_count, printed, overflowed>>
    /\ UNCHANGED notEO

\* std::cout << count; count++; cv.notify_all(); and the end of the iteration
\* releases the mutex
EOPrint(t) ==
    /\ eo_pc[t] \in {"lock", "relock"}
    /\ ~MustWait(t, count, max_count)
    /\ count <= max_count
    /\ Len(printed) < MaxPrinted
    /\ printed' = Append(printed, [by |-> t, n |-> count])
    /\ count' \in Increment(count)
    /\ overflowed' = (overflowed \/ count = IntMax)
    /\ eo_pc' = [EONotifyAll(eo_pc) EXCEPT ![t] = "lock"]
    /\ UNCHANGED max_count
    /\ UNCHANGED notEO

\* one iteration of printOdd (t = OddThread) or printEven (t = EvenThread),
\* made while holding mtx
EOThreadStep(t) == EOWait(t) \/ EOBreak(t) \/ EOPrint(t)

NextEO == \E t \in EOThreads : EOThreadStep(t) \/ EOSpuriousWake(t)

\* main constructs the printer with any max_count >= 0 an int can hold
InitEORun ==
    /\ InitAging(DemoWorkers)
    /\ InitPrio
    /\ InitQueue(DemoCapacity)
    /\ InitRW
    /\ InitRR(DemoWorkers)
    /\ InitMP(DemoWorkers)
    /\ InitRC(TRUE)
    /\ \E num \in 0 .. IntMax : InitEO(num)

SpecEO == InitEORun /\ [][NextEO]_vars

\* a thread that can take the mutex and run its iteration eventually does
FairEO == SpecEO /\ \A t \in EOThreads : WF_vars(EOThreadStep(t))

\* C39: the numbers 1..max_count are printed exactly once each in increasing
\* order, every odd number by printOdd and every even number by printEven, and
\* nothing else is printed, for every max_count >= 0.
C39_PrintsOneToMaxInOrder ==
    /\ Len(printed) <= max_count
    /\ \A k \in 1 .. Len(printed) :
          /\ printed[k].n = k
          /\ printed[k].by = (IF IsEven(k) THEN EvenThread ELSE OddThread)
    /\ (\A t \in EOThreads : eo_pc[t] = "done") => Len(printed) = max_count

\* ------------------------------------------------------- the shared counter
\* pthread_mutex_lock returns only when no thread holds the mutex (mutant:
\* a lock that excludes nobody)
MutexFree_Always(l) == TRUE
MutexFree(l) == l = 0

\* the value counter++ stores; uint32_t cannot wrap within 2 * BIG increments
AddOne(v) == v + 1

\* for (...; i < BIG; ...): enter the body, or return NULL
RCLoopTest(t) ==
    /\ rc_pc[t] = "loop"
    /\ rc_pc' = [rc_pc EXCEPT ![t] =
                    IF rc_i[t] < NumIncrements
                    THEN (IF use_lock THEN "acquire" ELSE "load")
                    ELSE "done"]
    /\ UNCHANGED <<counter, lock, use_lock, rc_reg, rc_i>>
    /\ UNCHANGED notRC

\* pthread_mutex_lock(&lock)
RCLock(t) ==
    /\ rc_pc[t] = "acquire"
    /\ MutexFree(lock)
    /\ lock' = t
    /\ rc_pc' = [rc_pc EXCEPT ![t] = "load"]
    /\ UNCHANGED <<counter, use_lock, rc_reg, rc_i>>
    /\ UNCHANGED notRC

\* counter++, first part: LOAD the value from memory into a register
RCLoad(t) ==
    /\ rc_pc[t] = "load"
    /\ rc_reg' = [rc_reg EXCEPT ![t] = counter]
    /\ rc_pc' = [rc_pc EXCEPT ![t] = "add"]
    /\ UNCHANGED <<counter, lock, use_lock, rc_i>>
    /\ UNCHANGED notRC

\* counter++, second part: ADD 1 to the register
RCAdd(t) ==
    /\ rc_pc[t] = "add"
    /\ rc_reg' = [rc_reg EXCEPT ![t] = AddOne(rc_reg[t])]
    /\ rc_pc' = [rc_pc EXCEPT ![t] = "store"]
    /\ UNCHANGED <<counter, lock, use_lock, rc_i>>
    /\ UNCHANGED notRC

\* counter++, third part: STORE the register back to memory; without the mutex
\* the body ends here and i++ follows
RCStore(t) ==
    /\ rc_pc[t] = "store"
    /\ counter' = rc_reg[t]
    /\ IF use_lock
       THEN /\ rc_pc' = [rc_pc EXCEPT ![t] = "unlock"]
            /\ UNCHANGED rc_i
       ELSE /\ rc_pc' = [rc_pc EXCEPT ![t] = "loop"]
            /\ rc_i' = [rc_i EXCEPT ![t] = rc_i[t] + 1]
    /\ UNCHANGED <<lock, use_lock, rc_reg>>
    /\ UNCHANGED notRC

\* pthread_mutex_unlock(&lock); i++
RCUnlock(t) ==
    /\ rc_pc[t] = "unlock"
    /\ lock' = 0
    /\ rc_i' = [rc_i EXCEPT ![t] = rc_i[t] + 1]
    /\ rc_pc' = [rc_pc EXCEPT ![t] = "loop"]
    /\ UNCHANGED <<counter, use_lock, rc_reg>>
    /\ UNCHANGED notRC

\* count_to_big (or routine), run by main and by the thread main created
RCThreadStep(t) ==
    \/ RCLoopTest(t)
    \/ RCLock(t)
    \/ RCLoad(t)
    \/ RCAdd(t)
    \/ RCStore(t)
    \/ RCUnlock(t)

NextRC == \E t \in RCThreads : RCThreadStep(t)

\* the program with the mutex around counter++, and the one without it
InitRCRun ==
    /\ InitAging(DemoWorkers)
    /\ InitPrio
    /\ InitQueue(DemoCapacity)
    /\ InitRW
    /\ InitRR(DemoWorkers)
    /\ InitMP(DemoWorkers)
    /\ InitEO(0)
    /\ \E locking \in BOOLEAN : InitRC(locking)

SpecRC == InitRCRun /\ [][NextRC]_vars

\* both threads have returned from their loop: what main prints after the join
RCAllDone == \A t \in RCThreads : rc_pc[t] = "done"

\* C40: with every increment made while holding the one mutex the final value
\* is exactly 2N; without the mutex the final value is never above 2N (it can
\* be lower: C40_Witness).
C40_LockedCountIsExact ==
    RCAllDone =>
        IF use_lock
        THEN counter = 2 * NumIncrements
        ELSE counter <= 2 * NumIncrements

\* two unsynchronised threads have finished and increments were lost
C40_Witness ==
    /\ RCAllDone
    /\ ~use_lock
    /\ counter < 2 * NumIncrements

====
